---- MODULE Spec2Model ----
(***************************************************************************)
(* Model of the ENGIE HR Hub headless client (engie_hr_mcp/login.py):      *)
(* the session lifecycle (_ensure_authenticated, load_session,             *)
(* save_session, test_authenticated_access, get_initial_auth_params,       *)
(* perform_login), the identity resolver (_get_employee_id) and the        *)
(* validate-then-commit submission (apply_coa).                            *)
(*                                                                         *)
(* One call of apply_coa is a run of steps, one step per HTTP exchange or  *)
(* file access, each step carrying all the code between two exchanges.     *)
(* The remote side and the file system are the environment: every step     *)
(* draws the response (or a transport exception) from a small set.         *)
(* log is the history of the HTTP requests issued in the current call,     *)
(* each with what it sent (data) and what came back (resp).                *)
(***************************************************************************)
EXTENDS Integers, Sequences, FiniteSets, TLC

VARIABLES
    pc,                 \* position of the running call
    calls,              \* number of finished top-level calls
    username,           \* self.username
    password,           \* self.password
    cookies,            \* self.session.cookies: the cookies set by name
    dashboard_cookies,  \* self.dashboard_cookies
    auth_params,        \* self.auth_params
    login_action_url,   \* self.login_action_url
    file,               \* content of self.session_file on disk
    target_date,        \* apply_coa argument
    time_in,            \* apply_coa argument
    time_out,           \* apply_coa argument
    reason,             \* apply_coa argument
    type_other,         \* apply_coa argument
    postback,           \* perform_login locals: form action and form_data
    certificate_logs,   \* apply_coa local
    employee_id,        \* apply_coa local
    coa_payload,        \* apply_coa local
    authenticated,      \* result of _ensure_authenticated in this call
    reused,             \* _ensure_authenticated returned on the reuse path
    ret,                \* result of apply_coa (of the last store operation)
    log,                \* HTTP requests issued in this call, in order
    store_hist,         \* history of the session-store operations
    printed,            \* the last line a step of the login printed
    resolved,           \* the identity resolutions of this object, in order
    server_cookies,     \* self.session.cookies: the cookies responses have set
    mcp_file,           \* content of the MCP server's session_file on disk
    mcp,                \* the MCP server's tool call: tool, auth, text
    tasks,              \* the handle_call_tool tasks of the event loop
    running,            \* the task the event loop is running, 0 for none
    wire,               \* HTTP steps of all tasks, in the order issued
    shared,             \* the save in progress and another process's load
    test_file,          \* content of test_session.json on disk
    script              \* a script run: exit status (-1: running), last line,
                        \* the credentials typed in

vars == <<pc, calls, username, password, cookies, dashboard_cookies,
          auth_params, login_action_url, file, target_date, time_in,
          time_out, reason, type_other, postback, certificate_logs,
          employee_id, coa_payload, authenticated, reused, ret, log,
          store_hist, printed, resolved, server_cookies, mcp_file, mcp, tasks,
          running, wire, shared, test_file, script>>

(***************************************************************************)
(* Bounds of the model.                                                    *)
(***************************************************************************)
MaxCalls == 2
MaxResolves == 3
MaxToolCalls == 2
MaxTasks == 2

(***************************************************************************)
(* Python values.                                                          *)
(***************************************************************************)
None == "None"

\* Python truthiness of an optional string
Falsy(s) == s = None \/ s = ""

\* Python's `a or b` on optional strings
OrElse(a, b) == IF Falsy(a) THEN b ELSE a

(***************************************************************************)
(* Program constants.                                                      *)
(***************************************************************************)
DefaultUsername == "bperalta"
DefaultPassword == "KKrm7MpdNQijfSM@"
PortalHost == "engie.hrhub.ph"
SsoHost == "sso.sprout.ph"
DashboardPath == "EmployeeDashboard.aspx"
UserAgent == "Mozilla/5.0"
DefaultReason == "forgot to in/out"

(***************************************************************************)
(* datetime.strptime(target_date, '%Y-%m-%d').  A date string is a         *)
(* sequence of one-character strings.  The format compiles to the regular  *)
(* expression \d\d\d\d-(1[0-2]|0[1-9]|[1-9])-(3[01]|[12]\d|0[1-9]|[1-9]|   *)
(* [1-9]) which must consume the whole string; the fields then have to     *)
(* name a day of the proleptic Gregorian calendar with year >= 1.          *)
(***************************************************************************)
DigitChars == {"0", "1", "2", "3", "4", "5", "6", "7", "8", "9"}

DigitVal(c) ==
    CASE c = "0" -> 0 [] c = "1" -> 1 [] c = "2" -> 2 [] c = "3" -> 3
      [] c = "4" -> 4 [] c = "5" -> 5 [] c = "6" -> 6 [] c = "7" -> 7
      [] c = "8" -> 8 [] c = "9" -> 9

IsDigit(s) == Len(s) > 0 /\ \A i \in 1..Len(s) : s[i] \in DigitChars

RECURSIVE ToInt(_)
ToInt(s) ==
    IF s = <<>> THEN 0
    ELSE 10 * ToInt(SubSeq(s, 1, Len(s) - 1)) + DigitVal(s[Len(s)])

\* index of the first "-" of s, or 0
FirstDash(s) ==
    IF \E i \in 1..Len(s) : s[i] = "-"
    THEN CHOOSE i \in 1..Len(s) : s[i] = "-" /\ \A j \in 1..(i - 1) : s[j] # "-"
    ELSE 0

MonthField(m) ==
    \/ Len(m) = 2 /\ m[1] = "1" /\ m[2] \in {"0", "1", "2"}
    \/ Len(m) = 2 /\ m[1] = "0" /\ m[2] \in DigitChars \ {"0"}
    \/ Len(m) = 1 /\ m[1] \in DigitChars \ {"0"}

DayField(d) ==
    \/ Len(d) = 2 /\ d[1] = "3" /\ d[2] \in {"0", "1"}
    \/ Len(d) = 2 /\ d[1] \in {"1", "2"} /\ d[2] \in DigitChars
    \/ Len(d) = 2 /\ d[1] = "0" /\ d[2] \in DigitChars \ {"0"}
    \/ Len(d) = 1 /\ d[1] \in DigitChars \ {"0"}
    \/ Len(d) = 2 /\ d[1] = " " /\ d[2] \in DigitChars \ {"0"}

IsLeap(y) == (y % 4 = 0 /\ y % 100 # 0) \/ y % 400 = 0

DaysInMonth(y, m) ==
    IF m = 2 THEN (IF IsLeap(y) THEN 29 ELSE 28)
    ELSE IF m \in {4, 6, 9, 11} THEN 30 ELSE 31

DayValue(d) == IF d[1] = " " THEN DigitVal(d[2]) ELSE ToInt(d)

\* TRUE iff strptime returns a datetime, FALSE iff it raises ValueError
StrptimeYmd(s) ==
    /\ Len(s) >= 5
    /\ IsDigit(SubSeq(s, 1, 4))
    /\ s[5] = "-"
    /\ LET rest == SubSeq(s, 6, Len(s))
           k == FirstDash(rest)
       IN /\ k > 0
          /\ LET m == SubSeq(rest, 1, k - 1)
                 d == SubSeq(rest, k + 1, Len(rest))
             IN /\ MonthField(m)
                /\ DayField(d)
                /\ ToInt(SubSeq(s, 1, 4)) >= 1
                /\ DayValue(d) <= DaysInMonth(ToInt(SubSeq(s, 1, 4)), ToInt(m))

(***************************************************************************)
(* Text helpers.  Names and attribute values of a fetched document are     *)
(* sequences of one-character strings.                                     *)
(***************************************************************************)
LowerChar(c) ==
    CASE c = "E" -> "e" [] c = "I" -> "i" [] c = "D" -> "d" [] c = "U" -> "u"
      [] c = "N" -> "n" [] OTHER -> c

LowerSeq(s) == [i \in 1..Len(s) |-> LowerChar(s[i])]

\* Python's `sub in s`
Contains(s, sub) ==
    \E i \in 0..(Len(s) - Len(sub)) : SubSeq(s, i + 1, i + Len(sub)) = sub

EndsWith(s, suf) ==
    Len(s) >= Len(suf) /\ SubSeq(s, Len(s) - Len(suf) + 1, Len(s)) = suf

EmployeeWord == <<"e", "m", "p", "l", "o", "y", "e", "e">>

(***************************************************************************)
(* _get_employee_id on a fetched dashboard document.  A document is        *)
(*   js     : the assignments `name [:=] literal` of the text, in order,   *)
(*   hidden : the <input type="hidden"> elements (name, value), in order,  *)
(*   data   : the data-employee-id values of the elements carrying one.    *)
(* NoId stands for Python's None.                                          *)
(***************************************************************************)
NoId == -1

\* js_patterns, lower-cased: re.IGNORECASE makes the first two coincide
js_patterns ==
    << <<"e", "m", "p", "l", "o", "y", "e", "e", "i", "d">>,
       <<"e", "m", "p", "l", "o", "y", "e", "e", "i", "d">>,
       <<"e", "m", "p", "i", "d">>,
       <<"u", "s", "e", "r", "i", "d">> >>

\* re.findall(pattern, text, re.IGNORECASE): the literals, in text order
FindAll(pattern, js) ==
    LET hit(i) == EndsWith(LowerSeq(js[i].name), pattern) /\ IsDigit(js[i].lit)
        RECURSIVE Collect(_)
        Collect(i) == IF i > Len(js) THEN <<>>
                      ELSE IF hit(i) THEN <<js[i].lit>> \o Collect(i + 1)
                      ELSE Collect(i + 1)
    IN Collect(1)

\* Pattern 1: first pattern that has a match, its first match
JsStrategy(js) ==
    LET hits == {p \in 1..Len(js_patterns) : FindAll(js_patterns[p], js) # <<>>}
    IN IF hits = {} THEN NoId
       ELSE LET p == CHOOSE q \in hits : \A r \in hits : q <= r
            IN ToInt(FindAll(js_patterns[p], js)[1])

\* Pattern 2: first hidden input named *employee* with an all-digit value
HiddenStrategy(hidden) ==
    LET ok(i) == /\ hidden[i].name # <<>>
                 /\ Contains(LowerSeq(hidden[i].name), EmployeeWord)
                 /\ IsDigit(hidden[i].value)
        hits == {i \in 1..Len(hidden) : ok(i)}
    IN IF hits = {} THEN NoId
       ELSE ToInt(hidden[CHOOSE i \in hits : \A j \in hits : i <= j].value)

\* Pattern 3: the first element with a data-employee-id attribute
DataStrategy(data) ==
    IF data # <<>> /\ IsDigit(data[1]) THEN ToInt(data[1]) ELSE NoId

ResolveEmployeeId(doc) ==
    IF JsStrategy(doc.js) # NoId THEN JsStrategy(doc.js)
    ELSE IF HiddenStrategy(doc.hidden) # NoId THEN HiddenStrategy(doc.hidden)
    ELSE DataStrategy(doc.data)

GetEmployeeId_cached(resp) ==
    IF employee_id # NoId THEN employee_id
    ELSE IF resp.raised \/ resp.status # 200 THEN NoId
    ELSE ResolveEmployeeId(resp.doc)

\* _get_employee_id: the GET of the dashboard, then the three strategies
GetEmployeeId(resp) ==
    IF resp.raised \/ resp.status # 200 THEN NoId
    ELSE ResolveEmployeeId(resp.doc)

NotEmployeeId_zero_only(id) == id = 0

\* apply_coa: `if not employee_id`
NotEmployeeId(id) == id = NoId \/ id = 0

(***************************************************************************)
(* The commit response: submit_response.json() and result.get('d').        *)
(* A JSON value is [t, n]: its type and its number (bool 0/1, the number,  *)
(* the length of a string or array, the number of keys of an object).      *)
(***************************************************************************)
JNull == [t |-> "null", n |-> 0]

\* Python truthiness of a decoded JSON value
Truthy(v) == v.t # "null" /\ v.n # 0

ParseCommit_unparsed_rejected(body) ==
    IF ~body.parses THEN FALSE
    ELSE IF body.t # "object" THEN TRUE
    ELSE Truthy(IF body.has_d THEN body.d ELSE JNull)

\* the try block of apply_coa after a 200 commit response
ParseCommit(body) ==
    IF ~body.parses THEN TRUE                 \* json() raises: assume success
    ELSE IF body.t # "object" THEN TRUE       \* .get raises AttributeError
    ELSE Truthy(IF body.has_d THEN body.d ELSE JNull)

(***************************************************************************)
(* URLs.  A URL is [host, path, query], query a sequence of <<key, value>>. *)
(***************************************************************************)
\* Python's `text in response.url`, for a text that is one of the URL's parts
InUrl(text, url) ==
    \/ url.host = text
    \/ url.path = text
    \/ \E i \in 1..Len(url.query) : url.query[i][1] = text \/ url.query[i][2] = text

\* parse_qs(urlparse(url).query): key -> list of its values, in order
ParseQs(query) ==
    LET keys == {query[i][1] : i \in 1..Len(query)}
        RECURSIVE Vals(_, _)
        Vals(k, i) == IF i > Len(query) THEN <<>>
                      ELSE IF query[i][1] = k THEN <<query[i][2]>> \o Vals(k, i + 1)
                      ELSE Vals(k, i + 1)
    IN [k \in keys |-> Vals(k, 1)]

\* "Extract single values from lists": a one-element list becomes its element
CollapseSingles(params) ==
    [k \in DOMAIN params |->
        IF Len(params[k]) = 1 THEN [scalar |-> TRUE, vals |-> <<params[k][1]>>]
        ELSE [scalar |-> FALSE, vals |-> params[k]]]

SsoLoginUrl ==
    [host |-> SsoHost, path |-> "auth",
     query |-> << <<"client_id", "hrhub">>, <<"scope", "openid">>, <<"scope", "email">> >>]
PortalLoginUrl == [host |-> PortalHost, path |-> "Login.aspx", query |-> <<>>]
MentionsSsoUrl ==
    [host |-> "example.org", path |-> "landing", query |-> << <<"next", SsoHost>> >>]
DashboardUrl == [host |-> PortalHost, path |-> DashboardPath, query |-> <<>>]
ForeignDashboardUrl == [host |-> "example.org", path |-> DashboardPath, query |-> <<>>]
LoginActionUrl == "https://sso.sprout.ph/login-actions/authenticate"
SigninOidcUrl == "https://engie.hrhub.ph/signin-oidc"

(***************************************************************************)
(* The environment: what each HTTP exchange can answer.  raised = TRUE is  *)
(* a transport exception (requests.RequestException); its other fields are *)
(* fillers.                                                                *)
(***************************************************************************)
Statuses == {200, 500}

CookieNames == {"ASP.NET_SessionId", "KEYCLOAK_IDENTITY"}
CookieValues == {"t1", "t2"}
\* the session token a completed login hands out
FreshTokens == {"t2"}
NoCookies == [n \in {} |-> "t1"]

NoForm == [present |-> FALSE, action |-> None, inputs |-> <<>>]
LoginForms ==
    { NoForm,
      [present |-> TRUE, action |-> None, inputs |-> <<>>],
      [present |-> TRUE, action |-> LoginActionUrl, inputs |-> <<>>] }

EntryResponses ==
    { [raised |-> TRUE, status |-> 0, url |-> PortalLoginUrl, form |-> NoForm] }
    \cup [raised : {FALSE}, status : Statuses,
          url : {SsoLoginUrl, PortalLoginUrl, MentionsSsoUrl}, form : LoginForms]

PostBackInputs ==
    << [name |-> "code", value |-> "c1"],
       [name |-> None, value |-> "ignored"],
       [name |-> "state", value |-> "s1"] >>

CredentialBodies ==
    { [form |-> [present |-> TRUE, action |-> SigninOidcUrl, inputs |-> PostBackInputs],
       error |-> FALSE],
      [form |-> [present |-> TRUE, action |-> None, inputs |-> PostBackInputs],
       error |-> FALSE],
      [form |-> NoForm, error |-> TRUE],
      [form |-> NoForm, error |-> FALSE] }

CredentialResponses ==
    { [raised |-> TRUE, status |-> 0, body |-> [form |-> NoForm, error |-> FALSE]] }
    \cup [raised : {FALSE}, status : Statuses, body : CredentialBodies]

PostBackResponses ==
    { [raised |-> TRUE, status |-> 0, url |-> PortalLoginUrl, setcookie |-> "t1"] }
    \cup [raised : {FALSE}, status : Statuses,
          url : {DashboardUrl, PortalLoginUrl, ForeignDashboardUrl},
          setcookie : FreshTokens]

ProbeResponses ==
    { [raised |-> TRUE, status |-> 0, marker |-> FALSE] }
    \cup [raised : {FALSE}, status : Statuses, marker : BOOLEAN]

Chars(name) ==
    CASE name = "EmployeeID" -> <<"E", "m", "p", "l", "o", "y", "e", "e", "I", "D">>
      [] name = "empId" -> <<"e", "m", "p", "I", "d">>
      [] name = "UserID" -> <<"U", "s", "e", "r", "I", "D">>
      [] name = "userName" -> <<"u", "s", "e", "r", "N", "a", "m", "e">>
      [] name = "employee_id" -> <<"e", "m", "p", "l", "o", "y", "e", "e", "_", "i", "d">>
      [] name = "EmployeeNo" -> <<"E", "m", "p", "l", "o", "y", "e", "e", "N", "o">>
      [] name = "other" -> <<"o", "t", "h", "e", "r">>

EmptyDoc == [js |-> <<>>, hidden |-> <<>>, data |-> <<>>]

Docs ==
    { EmptyDoc,
      [EmptyDoc EXCEPT !.js = << [name |-> Chars("userName"), lit |-> <<"7">>],
                                 [name |-> Chars("EmployeeID"), lit |-> <<"6", "0">>] >>],
      [EmptyDoc EXCEPT !.js = << [name |-> Chars("UserID"), lit |-> <<"5">>],
                                 [name |-> Chars("empId"), lit |-> <<"0", "7">>] >>,
                       !.data = << <<"9">> >>],
      [EmptyDoc EXCEPT !.js = << [name |-> Chars("EmployeeID"), lit |-> <<"0">>] >>,
                       !.hidden = << [name |-> Chars("employee_id"), value |-> <<"8">>] >>],
      [EmptyDoc EXCEPT !.hidden = << [name |-> Chars("other"), value |-> <<"4">>],
                                     [name |-> Chars("EmployeeNo"), value |-> <<"x">>],
                                     [name |-> Chars("employee_id"), value |-> <<"6", "1">>] >>],
      [EmptyDoc EXCEPT !.hidden = << [name |-> <<>>, value |-> <<"3">>] >>,
                       !.data = << <<"6", "2">>, <<"1">> >>],
      [EmptyDoc EXCEPT !.data = << <<>>, <<"6", "3">> >>] }

IdentityResponses ==
    { [raised |-> TRUE, status |-> 0, doc |-> EmptyDoc] }
    \cup [raised : {FALSE}, status : Statuses, doc : Docs]

\* a body that does not decode as JSON
NoBody == [parses |-> FALSE, t |-> "null", has_d |-> FALSE, d |-> JNull]

\* what ValidateSameFiling answers: the wrapper 'd' around a verdict
ValidateBodies ==
    { [parses |-> TRUE, t |-> "object", has_d |-> TRUE, d |-> [t |-> "bool", n |-> 1]],
      [parses |-> TRUE, t |-> "object", has_d |-> TRUE, d |-> [t |-> "bool", n |-> 0]] }

ValidateResponses ==
    { [raised |-> TRUE, status |-> 0, body |-> NoBody] }
    \cup [raised : {FALSE}, status : {200}, body : ValidateBodies]
    \cup [raised : {FALSE}, status : Statuses \ {200}, body : {NoBody}]

CommitBodies ==
    { NoBody,
      [parses |-> TRUE, t |-> "object", has_d |-> TRUE, d |-> [t |-> "object", n |-> 2]],
      [parses |-> TRUE, t |-> "object", has_d |-> TRUE, d |-> [t |-> "bool", n |-> 1]],
      [parses |-> TRUE, t |-> "object", has_d |-> TRUE, d |-> [t |-> "bool", n |-> 0]],
      [parses |-> TRUE, t |-> "object", has_d |-> TRUE, d |-> JNull],
      [parses |-> TRUE, t |-> "object", has_d |-> TRUE, d |-> [t |-> "object", n |-> 0]],
      [parses |-> TRUE, t |-> "object", has_d |-> FALSE, d |-> JNull],
      [parses |-> TRUE, t |-> "array", has_d |-> FALSE, d |-> JNull],
      [parses |-> TRUE, t |-> "string", has_d |-> FALSE, d |-> JNull],
      [parses |-> TRUE, t |-> "null", has_d |-> FALSE, d |-> JNull] }

\* an error page, or an error status with a well-formed envelope
ErrorBodies ==
    { NoBody,
      [parses |-> TRUE, t |-> "object", has_d |-> TRUE, d |-> [t |-> "object", n |-> 2]] }

CommitResponses ==
    { [raised |-> TRUE, status |-> 0, body |-> NoBody] }
    \cup [raised : {FALSE}, status : {200}, body : CommitBodies]
    \cup [raised : {FALSE}, status : Statuses \ {200}, body : ErrorBodies]

(***************************************************************************)
(* Inputs of the calls and of the constructor.                             *)
(***************************************************************************)
Date(name) ==
    CASE name = "2025-07-20" -> <<"2", "0", "2", "5", "-", "0", "7", "-", "2", "0">>
      [] name = "2024-2-29" -> <<"2", "0", "2", "4", "-", "2", "-", "2", "9">>
      [] name = "2025-02-30" -> <<"2", "0", "2", "5", "-", "0", "2", "-", "3", "0">>
      [] name = "07/25/2025" -> <<"0", "7", "/", "2", "5", "/", "2", "0", "2", "5">>
      [] name = "07-20-2025" -> <<"0", "7", "-", "2", "0", "-", "2", "0", "2", "5">>
      [] name = "invalid" -> <<"i", "n", "v", "a", "l", "i", "d">>

Dates == { Date(n) : n \in {"2025-07-20", "2024-2-29", "2025-02-30",
                            "07/25/2025", "07-20-2025", "invalid"} }
TimesIn == {None, "", "09:32"}
TimesOut == {None, "17:30"}
Reasons == {DefaultReason}

Credentials ==
    { [username |-> None, password |-> None],
      [username |-> "alice", password |-> "wonderland"] }

\* the order in which the jar lists its cookies
CookieOrder == <<"ASP.NET_SessionId", "KEYCLOAK_IDENTITY">>

\* json.dump of dict(self.session.cookies): the members "name": "value" of
\* the JSON object, in the jar's order
DumpCookies(jar) ==
    LET RECURSIVE Members(_)
        Members(i) ==
            IF i > Len(CookieOrder) THEN <<>>
            ELSE IF CookieOrder[i] \in DOMAIN jar
                 THEN << <<CookieOrder[i], jar[CookieOrder[i]]>> >> \o Members(i + 1)
                 ELSE Members(i + 1)
    IN Members(1)

\* json.load of the members of a JSON object: a dict, the last of two equal
\* keys wins
ParseMembers(members) ==
    LET names == {members[i][1] : i \in 1..Len(members)}
        last(n) == CHOOSE i \in 1..Len(members) :
                      members[i][1] = n /\ \A j \in 1..Len(members) : members[j][1] = n => j <= i
    IN [n \in names |-> members[last(n)][2]]

\* session_data of save_session, as written to the file
SessionRecord(c) ==
    [kind |-> "session", cookies |-> DumpCookies(c), headers |-> UserAgent]
NoFile == [kind |-> "missing", cookies |-> <<>>, headers |-> None]

\* what can be at the session file's location when the program starts
InitialFiles ==
    { NoFile,
      [kind |-> "corrupt", cookies |-> <<>>, headers |-> None],
      [kind |-> "notobject", cookies |-> <<>>, headers |-> None],
      SessionRecord(NoCookies),
      SessionRecord([n \in {"ASP.NET_SessionId"} |-> "t1"]),
      SessionRecord([n \in CookieNames |-> "t2"]) }

(***************************************************************************)
(* Pieces of the methods that the steps below share.                       *)
(***************************************************************************)
\* one entry of the request history
Request(name, resp, data) == [req |-> name, data |-> data, resp |-> resp]

\* load_session: TRUE iff the file opens, decodes and has a cookie mapping
LoadSucceeds(f) == f.kind = "session"

LoadedCookies_not_restored(f, jar) == jar

(***************************************************************************)
(* The cookie jar holds the cookies set by name (cookies.set(name, value), *)
(* no domain) and the cookies a response set (bound to the domain of the   *)
(* response); a name can be in both.  dict(self.session.cookies) raises    *)
(* CookieConflictError when it is, and is the union otherwise.             *)
(***************************************************************************)
JarConflict(byname, bydomain) == (DOMAIN byname) \cap (DOMAIN bydomain) # {}
JarDict(byname, bydomain) == byname @@ bydomain

\* load_session: cookies.set(name, value) for every persisted cookie
LoadedCookies(f, jar) == ParseMembers(f.cookies) @@ jar

LoadResult_no_generic_handler(f) ==
    IF LoadSucceeds(f) THEN "True"
    ELSE IF f.kind = "missing" THEN "False"
    ELSE "raised"

\* load_session: what the caller gets, "raised" if an exception escapes.
\* FileNotFoundError and every other Exception are caught, each returns False
LoadResult(f) ==
    IF LoadSucceeds(f) THEN "True"
    ELSE IF f.kind = "missing" THEN "False"
    ELSE "False"

\* load_session: the line it prints
LoadMessage(f) ==
    IF LoadSucceeds(f) THEN "Session loaded from"
    ELSE IF f.kind = "missing" THEN "No existing session file found"
    ELSE "Error loading session"

\* save_session: what the caller gets
SaveResult(writable) == IF writable THEN "True" ELSE "False"

\* save_session: the record written, or the old content if open() fails
SavedFile_nothing_written(jar, writable, old) == old

SavedFile_with_login(jar, writable, old) ==
    IF writable
    THEN [SessionRecord(jar) EXCEPT !.cookies = @ \o << <<"username", username>> >>]
    ELSE old

SavedFile(jar, writable, old) == IF writable THEN SessionRecord(jar) ELSE old

ProbeSucceeds_marker_only(resp) == ~resp.raised /\ resp.marker

\* test_authenticated_access
ProbeSucceeds(resp) == ~resp.raised /\ resp.status = 200 /\ resp.marker

\* get_initial_auth_params: the checks on the entry response
EntryHostOk(resp) == InUrl(SsoHost, resp.url)
EntrySucceeds(resp) ==
    /\ ~resp.raised
    /\ resp.status = 200
    /\ EntryHostOk(resp)
    /\ resp.form.present
    /\ ~Falsy(resp.form.action)

CredentialsAccepted_any_status(resp) ==
    /\ ~resp.raised
    /\ resp.body.form.present
    /\ ~Falsy(resp.body.form.action)

\* perform_login: the credential POST gave a form_post page
CredentialsAccepted(resp) ==
    /\ ~resp.raised
    /\ resp.status = 200
    /\ resp.body.form.present
    /\ ~Falsy(resp.body.form.action)

\* get_initial_auth_params: the line printed last
EntryMessage_one_form_message(resp) ==
    IF resp.raised THEN "Error getting auth parameters"
    ELSE IF resp.status # 200 THEN "Failed to access initial URL"
    ELSE IF ~EntryHostOk(resp) THEN "Did not redirect to SSO login page"
    ELSE IF ~resp.form.present \/ Falsy(resp.form.action)
         THEN "Could not find login form"
    ELSE "Found login action URL"

EntryMessage(resp) ==
    IF resp.raised THEN "Error getting auth parameters"
    ELSE IF resp.status # 200 THEN "Failed to access initial URL"
    ELSE IF ~EntryHostOk(resp) THEN "Did not redirect to SSO login page"
    ELSE IF ~resp.form.present THEN "Could not find login form"
    ELSE IF Falsy(resp.form.action) THEN "Could not extract login action URL"
    ELSE "Found login action URL"

\* perform_login: the line printed after the credential POST
LoginMessage(resp) ==
    IF resp.raised THEN "Error during login"
    ELSE IF resp.status # 200 THEN "Login request failed with status"
    ELSE IF resp.body.form.present /\ ~Falsy(resp.body.form.action)
         THEN "Processing OIDC form_post response"
    ELSE IF resp.body.error THEN "Login failed: kc-feedback-text"
    ELSE "Login failed: No form_post found in response"

\* perform_login: the line printed after the post-back
LandingMessage(resp, conflict) ==
    IF resp.raised THEN "Error during login"
    ELSE IF InUrl(PortalHost, resp.url) /\ InUrl(DashboardPath, resp.url)
         THEN IF conflict THEN "Error during login"
              ELSE "Login successful! Redirected to dashboard"
    ELSE "Did not reach expected dashboard"

\* perform_login: form_data of the post-back, the named inputs of the form
FormData(inputs) ==
    LET named == {i \in 1..Len(inputs) : ~Falsy(inputs[i].name)}
        names == {inputs[i].name : i \in named}
    IN [k \in names |->
          inputs[CHOOSE i \in named :
                    inputs[i].name = k /\ \A j \in named : inputs[j].name = k => j <= i].value]

\* perform_login: the landing check on the post-back's final URL
LandedOnDashboard(resp) ==
    ~resp.raised /\ InUrl(PortalHost, resp.url) /\ InUrl(DashboardPath, resp.url)

PostBackSucceeds_conflict_ignored(resp, conflict) == LandedOnDashboard(resp)

\* perform_login, lines 150-153: the landing check passed and
\* dict(self.session.cookies) did not raise
PostBackSucceeds(resp, conflict) == LandedOnDashboard(resp) /\ ~conflict

\* what a step of the login returns to _ensure_authenticated
StepReturn(name, resp, conflict) ==
    CASE name = "entry" -> EntrySucceeds(resp)
      [] name = "credentials" -> CredentialsAccepted(resp)
      [] name = "postback" -> PostBackSucceeds(resp, conflict)

BuildLogs_out_unconditional(d, ti, to) ==
    (IF ~Falsy(ti)
     THEN << [FormattedDate |-> d, FormattedTime |-> ti, Type |-> "In",
              CertificateLogID |-> 0] >>
     ELSE <<>>)
    \o
    << [FormattedDate |-> d, FormattedTime |-> to, Type |-> "Out",
        CertificateLogID |-> 0] >>

\* apply_coa: certificate_logs, one record per truthy time
BuildLogs(d, ti, to) ==
    (IF ~Falsy(ti)
     THEN << [FormattedDate |-> d, FormattedTime |-> ti, Type |-> "In",
              CertificateLogID |-> 0] >>
     ELSE <<>>)
    \o
    (IF ~Falsy(to)
     THEN << [FormattedDate |-> d, FormattedTime |-> to, Type |-> "Out",
              CertificateLogID |-> 0] >>
     ELSE <<>>)

\* apply_coa: coa_payload["certificateOfAttendance"]
BuildPayload(id, logs, r, t) ==
    [CertificateOfAttendanceID |-> 0,
     CertificateTypeID |-> "0",
     CertificateTypeOthers |-> t,
     Remarks |-> r,
     Status |-> None,
     EmployeeID |-> id,
     FormattedCertificateLogs |-> logs]

NoPayload == BuildPayload(NoId, <<>>, None, None)
NoPostBack == [action |-> None, form_data |-> NoCookies]

\* no session-store operation was performed yet
\* nothing printed yet
NoLine == "none"

\* no tool call is running in the MCP server
NoTool == [name |-> "none", date |-> <<>>, time_in |-> None, time_out |-> None]

\* asyncio tasks: none has been created yet
NoTasks == [t \in 1..MaxTasks |-> [at |-> "none", step |-> 0, seen |-> 0]]

\* no save is in progress and the other process has not read the file
NoShared ==
    [replaced |-> NoFile, writing |-> NoFile, at |-> "none", read |-> NoFile,
     result |-> "none"]

\* a script that has not exited and has printed nothing yet
NoScript == [exit |-> -1, said |-> "none", username |-> None, password |-> None]

NoToolCall == [tool |-> NoTool, auth |-> "pending", text |-> "none"]

NoHistory ==
    [op |-> "none", load |-> "none", save |-> "none", message |-> "none",
     written |-> FALSE, saved |-> NoCookies, before |-> NoCookies]

\* the history after load_session ran on file f with the jar as it was
AfterLoad(h, f, jar) ==
    [h EXCEPT !.op = "load", !.load = LoadResult(f), !.message = LoadMessage(f),
              !.before = jar]

\* the history after save_session ran on the jar
AfterSave(h, jar, writable) ==
    [h EXCEPT !.op = "save", !.save = SaveResult(writable),
              !.written = IF writable THEN TRUE ELSE @,
              !.saved = IF writable THEN jar ELSE @]

CommitPayload_rebuilt(p) == [p EXCEPT !.FormattedCertificateLogs = <<>>]

\* the payload the commit POST carries: the same object the validate POST sent
CommitPayload(p) == p

(***************************************************************************)
(* Initial state: a freshly constructed ENGIEHRLogin, and whatever is at   *)
(* the session file's location.                                            *)
(***************************************************************************)
Init ==
    /\ pc = "idle"
    /\ calls = 0
    /\ \E c \in Credentials :
          /\ username = OrElse(c.username, DefaultUsername)
          /\ password = OrElse(c.password, DefaultPassword)
    /\ cookies = NoCookies
    /\ dashboard_cookies = NoCookies
    /\ auth_params = NoCookies
    /\ login_action_url = None
    /\ file \in InitialFiles
    /\ target_date = <<>>
    /\ time_in = None
    /\ time_out = None
    /\ reason = None
    /\ type_other = None
    /\ postback = NoPostBack
    /\ certificate_logs = <<>>
    /\ employee_id = NoId
    /\ coa_payload = NoPayload
    /\ authenticated = "pending"
    /\ reused = FALSE
    /\ ret = FALSE
    /\ log = <<>>
    /\ store_hist = NoHistory
    /\ printed = NoLine
    /\ resolved = <<>>
    /\ server_cookies = NoCookies
    /\ mcp_file = NoFile
    /\ mcp = NoToolCall
    /\ tasks = NoTasks
    /\ running = 0
    /\ wire = <<>>
    /\ shared = NoShared
    /\ test_file = NoFile
    /\ script = NoScript

\* save_session: session_data['cookies'], and whether the file gets written
Jar == JarDict(cookies, server_cookies)
SaveWrites(writable) == writable /\ ~JarConflict(cookies, server_cookies)

objVars == <<username, password>>
loopVars == <<tasks, running, wire>>
scriptVars == <<test_file, script>>
auxVars == <<resolved, mcp_file, mcp, loopVars, shared, scriptVars>>
argVars == <<target_date, time_in, time_out, reason, type_other>>
loginVars == <<auth_params, login_action_url, postback, dashboard_cookies, printed>>
coaVars == <<certificate_logs, employee_id, coa_payload>>

\* a `return False` of apply_coa
ReturnFalse == ret' = FALSE /\ pc' = "done"

(***************************************************************************)
(* apply_coa, lines 422-431: the call, and the check that a time is given. *)
(***************************************************************************)
NoTimeGiven_dropped_not(ti, to) == Falsy(ti) /\ ~Falsy(to)

\* `if not time_in and not time_out`
NoTimeGiven(ti, to) == Falsy(ti) /\ Falsy(to)

apply_coa(d, ti, to, r, t) ==
    /\ pc = "idle"
    /\ calls < MaxCalls
    /\ target_date' = d
    /\ time_in' = ti
    /\ time_out' = to
    /\ reason' = r
    /\ type_other' = t
    /\ log' = <<>>
    /\ authenticated' = "pending"
    /\ reused' = FALSE
    /\ certificate_logs' = <<>>
    /\ employee_id' = NoId
    /\ coa_payload' = NoPayload
    /\ ret' = FALSE
    /\ IF NoTimeGiven(ti, to) THEN pc' = "done" ELSE pc' = "load_session"
    /\ UNCHANGED <<store_hist, calls, objVars, auxVars, server_cookies, cookies, loginVars, file>>

(***************************************************************************)
(* apply_coa after _ensure_authenticated returned True, lines 433-463:     *)
(* the date is parsed and the log records are built.                       *)
(***************************************************************************)
AfterAuthenticated ==
    /\ authenticated' = "ok"
    /\ IF StrptimeYmd(target_date)
       THEN /\ certificate_logs' = BuildLogs(target_date, time_in, time_out)
            /\ pc' = "identity"
            /\ ret' = FALSE
       ELSE /\ certificate_logs' = <<>>
            /\ ReturnFalse

AuthenticationFailed_result_ignored ==
    /\ authenticated' = "failed"
    /\ certificate_logs' = certificate_logs
    /\ ret' = FALSE
    /\ pc' = "identity"

\* _ensure_authenticated returned False: apply_coa returns False
AuthenticationFailed ==
    /\ authenticated' = "failed"
    /\ certificate_logs' = certificate_logs
    /\ ReturnFalse

(***************************************************************************)
(* _ensure_authenticated, line 362: load_session(self.session_file).       *)
(***************************************************************************)
load_session ==
    /\ pc = "load_session"
    /\ IF LoadSucceeds(file)
       THEN cookies' = LoadedCookies(file, cookies) /\ pc' = "probe_loaded"
       ELSE cookies' = cookies /\ pc' = "entry"
    /\ store_hist' = AfterLoad(store_hist, file, cookies)
    /\ UNCHANGED <<calls, objVars, auxVars, server_cookies, argVars, loginVars, coaVars, file,
                   authenticated, reused, ret, log>>

(***************************************************************************)
(* _ensure_authenticated, lines 363-369: the probe of the loaded session.  *)
(***************************************************************************)
probe_loaded_falls_through(resp) ==
    /\ pc = "probe_loaded"
    /\ log' = Append(log, Request("probe", resp, None))
    /\ pc' = "entry"
    /\ UNCHANGED <<reused, authenticated, certificate_logs, ret>>
    /\ UNCHANGED <<store_hist, calls, objVars, auxVars, server_cookies, argVars, loginVars, cookies, file,
                   employee_id, coa_payload>>

probe_loaded_deletes_stale(resp) ==
    /\ pc = "probe_loaded"
    /\ log' = Append(log, Request("probe", resp, None))
    /\ IF ProbeSucceeds(resp)
       THEN reused' = TRUE /\ AfterAuthenticated /\ file' = file
       ELSE /\ pc' = "entry"
            /\ file' = NoFile
            /\ UNCHANGED <<reused, authenticated, certificate_logs, ret>>
    /\ UNCHANGED <<store_hist, calls, objVars, auxVars, server_cookies, argVars,
                   loginVars, cookies, employee_id, coa_payload>>

probe_loaded_saves_on_reuse(resp) ==
    /\ pc = "probe_loaded"
    /\ log' = Append(log, Request("probe", resp, None))
    /\ IF ProbeSucceeds(resp)
       THEN /\ reused' = TRUE /\ AfterAuthenticated
            /\ file' = SavedFile(Jar, TRUE, file)
            /\ store_hist' = AfterSave(store_hist, Jar, TRUE)
       ELSE /\ pc' = "entry"
            /\ UNCHANGED <<reused, authenticated, certificate_logs, ret, file,
                           store_hist>>
    /\ UNCHANGED <<calls, objVars, auxVars, server_cookies, argVars,
                   loginVars, cookies, employee_id, coa_payload>>

probe_loaded(resp) ==
    /\ pc = "probe_loaded"
    /\ log' = Append(log, Request("probe", resp, None))
    /\ IF ProbeSucceeds(resp)
       THEN reused' = TRUE /\ AfterAuthenticated
       ELSE /\ pc' = "entry"
            /\ UNCHANGED <<reused, authenticated, certificate_logs, ret>>
    /\ UNCHANGED <<store_hist, calls, objVars, auxVars, server_cookies, argVars, loginVars, cookies, file,
                   employee_id, coa_payload>>

(***************************************************************************)
(* get_initial_auth_params, called at line 374.                            *)
(***************************************************************************)
get_initial_auth_params_retried(resp) ==
    /\ pc = "entry"
    /\ log' = Append(log, Request("entry", resp, None))
    /\ printed' = EntryMessage(resp)
    /\ auth_params' =
          IF ~resp.raised /\ resp.status = 200 /\ EntryHostOk(resp)
          THEN CollapseSingles(ParseQs(resp.url.query))
          ELSE auth_params
    /\ IF EntrySucceeds(resp)
       THEN /\ login_action_url' = resp.form.action
            /\ pc' = "credentials"
            /\ UNCHANGED <<authenticated, certificate_logs, ret>>
       ELSE /\ login_action_url' = login_action_url
            /\ IF \E i \in 1..Len(log) : log[i].req = "entry"
               THEN AuthenticationFailed
               ELSE UNCHANGED <<pc, authenticated, certificate_logs, ret>>
    /\ UNCHANGED <<store_hist, calls, objVars, auxVars, server_cookies, argVars, postback, dashboard_cookies, cookies,
                   file, employee_id, coa_payload, reused>>

get_initial_auth_params(resp) ==
    /\ pc = "entry"
    /\ log' = Append(log, Request("entry", resp, None))
    /\ printed' = EntryMessage(resp)
    /\ auth_params' =
          IF ~resp.raised /\ resp.status = 200 /\ EntryHostOk(resp)
          THEN CollapseSingles(ParseQs(resp.url.query))
          ELSE auth_params
    /\ IF EntrySucceeds(resp)
       THEN /\ login_action_url' = resp.form.action
            /\ pc' = "credentials"
            /\ UNCHANGED <<authenticated, certificate_logs, ret>>
       ELSE /\ login_action_url' = login_action_url
            /\ AuthenticationFailed
    /\ UNCHANGED <<store_hist, calls, objVars, auxVars, server_cookies, argVars, postback, dashboard_cookies, cookies,
                   file, employee_id, coa_payload, reused>>

(***************************************************************************)
(* perform_login(self.username, self.password), lines 93-120 and 157-168:  *)
(* the credential POST and the look for the form_post page.                *)
(***************************************************************************)
LoginData_defaults(u, p) ==
    [username |-> DefaultUsername, password |-> DefaultPassword, credentialId |-> ""]

\* login_data
LoginData(u, p) == [username |-> u, password |-> p, credentialId |-> ""]

perform_login(resp) ==
    /\ pc = "credentials"
    /\ log' = Append(log, Request("credentials", resp, LoginData(username, password)))
    /\ printed' = LoginMessage(resp)
    /\ IF CredentialsAccepted(resp)
       THEN /\ postback' = [action |-> resp.body.form.action,
                            form_data |-> FormData(resp.body.form.inputs)]
            /\ pc' = "postback"
            /\ UNCHANGED <<authenticated, certificate_logs, ret>>
       ELSE /\ postback' = postback
            /\ AuthenticationFailed
    /\ UNCHANGED <<store_hist, calls, objVars, auxVars, server_cookies, argVars, auth_params, login_action_url,
                   dashboard_cookies, cookies, file, employee_id, coa_payload, reused>>

(***************************************************************************)
(* perform_login, lines 140-156: the post-back POST and the landing check. *)
(* The transport stores the cookie the response sets.                      *)
(***************************************************************************)
post_back(resp) ==
    /\ pc = "postback"
    /\ log' = Append(log, Request("postback", resp, postback.form_data))
    /\ server_cookies' =
          IF resp.raised THEN server_cookies
          ELSE [n \in {"ASP.NET_SessionId"} |-> resp.setcookie] @@ server_cookies
    /\ printed' = LandingMessage(resp, JarConflict(cookies, server_cookies'))
    /\ IF PostBackSucceeds(resp, JarConflict(cookies, server_cookies'))
       THEN /\ dashboard_cookies' = JarDict(cookies, server_cookies')
            /\ pc' = "probe_fresh"
            /\ UNCHANGED <<authenticated, certificate_logs, ret>>
       ELSE /\ dashboard_cookies' = dashboard_cookies
            /\ AuthenticationFailed
    /\ UNCHANGED <<store_hist, calls, objVars, auxVars, argVars, auth_params,
                   login_action_url, cookies, postback, file, employee_id,
                   coa_payload, reused>>

(***************************************************************************)
(* _ensure_authenticated, lines 382-389: the probe after the login, and    *)
(* save_session(self.session_file), whose result is ignored.               *)
(***************************************************************************)
probe_fresh_save_checked(resp, writable) ==
    /\ pc = "probe_fresh"
    /\ log' = Append(log, Request("probe", resp, None))
    /\ IF ProbeSucceeds(resp) /\ SaveWrites(writable)
       THEN /\ file' = SavedFile(Jar, SaveWrites(writable), file)
            /\ store_hist' = AfterSave(store_hist, Jar, SaveWrites(writable))
            /\ AfterAuthenticated
       ELSE /\ file' = file
            /\ store_hist' = AfterSave(store_hist, Jar, SaveWrites(writable))
            /\ AuthenticationFailed
    /\ UNCHANGED <<calls, objVars, auxVars, server_cookies, argVars, loginVars, cookies,
                   employee_id, coa_payload, reused>>

probe_fresh_retries_login(resp, writable) ==
    /\ pc = "probe_fresh"
    /\ log' = Append(log, Request("probe", resp, None))
    /\ IF ProbeSucceeds(resp)
       THEN /\ file' = SavedFile(Jar, SaveWrites(writable), file)
            /\ store_hist' = AfterSave(store_hist, Jar, SaveWrites(writable))
            /\ AfterAuthenticated
       ELSE /\ file' = file
            /\ store_hist' = store_hist
            /\ pc' = "entry"
            /\ UNCHANGED <<authenticated, certificate_logs, ret>>
    /\ UNCHANGED <<calls, objVars, auxVars, server_cookies, argVars, loginVars, cookies,
                   employee_id, coa_payload, reused>>

probe_fresh_saves_before_probe(resp, writable) ==
    /\ pc = "probe_fresh"
    /\ log' = Append(log, Request("probe", resp, None))
    /\ file' = SavedFile(Jar, SaveWrites(writable), file)
    /\ store_hist' = AfterSave(store_hist, Jar, SaveWrites(writable))
    /\ IF ProbeSucceeds(resp) THEN AfterAuthenticated ELSE AuthenticationFailed
    /\ UNCHANGED <<calls, objVars, auxVars, server_cookies, argVars, loginVars, cookies,
                   employee_id, coa_payload, reused>>

probe_fresh(resp, writable) ==
    /\ pc = "probe_fresh"
    /\ log' = Append(log, Request("probe", resp, None))
    /\ IF ProbeSucceeds(resp)
       THEN /\ file' = SavedFile(Jar, SaveWrites(writable), file)
            /\ store_hist' = AfterSave(store_hist, Jar, SaveWrites(writable))
            /\ AfterAuthenticated
       ELSE /\ file' = file
            /\ store_hist' = store_hist
            /\ AuthenticationFailed
    /\ UNCHANGED <<calls, objVars, auxVars, server_cookies, argVars, loginVars, cookies,
                   employee_id, coa_payload, reused>>

(***************************************************************************)
(* apply_coa, lines 465-482: _get_employee_id and the payload.             *)
(***************************************************************************)
get_employee_id(resp) ==
    /\ pc = "identity"
    /\ log' = Append(log, Request("identity", resp, None))
    /\ employee_id' = GetEmployeeId(resp)
    /\ IF NotEmployeeId(employee_id')
       THEN coa_payload' = coa_payload /\ ReturnFalse
       ELSE /\ coa_payload' = BuildPayload(employee_id', certificate_logs,
                                           reason, type_other)
            /\ pc' = "validate"
            /\ ret' = FALSE
    /\ UNCHANGED <<store_hist, calls, objVars, auxVars, server_cookies, argVars, loginVars, cookies, file,
                   certificate_logs, authenticated, reused>>

(***************************************************************************)
(* apply_coa, lines 486-503: the POST to ValidateSameFiling.               *)
(***************************************************************************)
ValidatePassed_any_status(resp) == ~resp.raised

ValidatePassed_exception_swallowed(resp) == resp.raised \/ resp.status = 200

ValidatePassed_verdict_read(resp) ==
    ~resp.raised /\ resp.status = 200 /\ ParseCommit(resp.body)

\* the validate POST returned, with status 200
ValidatePassed(resp) == ~resp.raised /\ resp.status = 200

validate(resp) ==
    /\ pc = "validate"
    /\ log' = Append(log, Request("validate", resp, coa_payload))
    /\ IF ValidatePassed(resp)
       THEN pc' = "commit" /\ ret' = FALSE
       ELSE ReturnFalse
    /\ UNCHANGED <<store_hist, calls, objVars, auxVars, server_cookies, argVars, loginVars, cookies, file,
                   coaVars, authenticated, reused>>

(***************************************************************************)
(* apply_coa, lines 505-535: the POST to Save and the reading of its       *)
(* response.                                                               *)
(***************************************************************************)
CommitResult_status_unchecked(resp) ==
    IF resp.raised THEN FALSE ELSE ParseCommit(resp.body)

\* what apply_coa returns after the commit POST
CommitResult(resp) ==
    IF resp.raised THEN FALSE
    ELSE IF resp.status # 200 THEN FALSE
    ELSE ParseCommit(resp.body)

commit(resp) ==
    /\ pc = "commit"
    /\ log' = Append(log, Request("commit", resp, CommitPayload(coa_payload)))
    /\ ret' = CommitResult(resp)
    /\ pc' = "done"
    /\ UNCHANGED <<store_hist, calls, objVars, auxVars, server_cookies, argVars, loginVars, cookies, file,
                   coaVars, authenticated, reused>>

\* the caller takes the result: the frame of the call is gone, the object
\* and the session file stay
return ==
    /\ pc = "done"
    /\ pc' = "idle"
    /\ calls' = calls + 1
    /\ target_date' = <<>>
    /\ time_in' = None
    /\ time_out' = None
    /\ reason' = None
    /\ type_other' = None
    /\ postback' = NoPostBack
    /\ certificate_logs' = <<>>
    /\ employee_id' = NoId
    /\ coa_payload' = NoPayload
    /\ authenticated' = "pending"
    /\ reused' = FALSE
    /\ ret' = FALSE
    /\ log' = <<>>
    /\ store_hist' = NoHistory
    /\ printed' = NoLine
    /\ UNCHANGED <<objVars, auxVars, server_cookies, cookies, dashboard_cookies, auth_params,
                   login_action_url, file>>

Next ==
    \/ \E d \in Dates, ti \in TimesIn, to \in TimesOut, r \in Reasons, t \in Reasons :
          apply_coa(d, ti, to, r, t)
    \/ load_session
    \/ \E resp \in ProbeResponses : probe_loaded(resp)
    \/ \E resp \in EntryResponses : get_initial_auth_params(resp)
    \/ \E resp \in CredentialResponses : perform_login(resp)
    \/ \E resp \in PostBackResponses : post_back(resp)
    \/ \E resp \in ProbeResponses, writable \in BOOLEAN : probe_fresh(resp, writable)
    \/ \E resp \in IdentityResponses : get_employee_id(resp)
    \/ \E resp \in ValidateResponses : validate(resp)
    \/ \E resp \in CommitResponses : commit(resp)
    \/ return

Spec == Init /\ [][Next]_vars

(***************************************************************************)
(* Reading the request history.                                            *)
(***************************************************************************)
Indices(name) == {i \in 1..Len(log) : log[i].req = name}
Count(name) == Cardinality(Indices(name))

\* the exchange returned a response with status 200
Ok200(e) == ~e.resp.raised /\ e.resp.status = 200

\* the exchange returned a response with another status
Not200(e) == ~e.resp.raised /\ e.resp.status # 200

\* a probe that found the dashboard: status 200 and the marker text
ProbePassed(e) == e.req = "probe" /\ Ok200(e) /\ e.resp.marker

\* apply_coa has returned, ret is its result
Returned == pc = "done"

\* the first thing the call did on the network was a probe that passed:
\* the persisted session was loaded and is still valid
FastPath == Len(log) >= 1 /\ ProbePassed(log[1])

(***************************************************************************)
(* C1.  In every apply_coa call, if the POST to ValidateSameFiling returns *)
(* a status other than 200, apply_coa returns failure and no POST to Save  *)
(* is issued in that call.                                                 *)
(***************************************************************************)
C1_ValidateFailureNeverCommits ==
    \A i \in Indices("validate") :
        Not200(log[i]) => Returned /\ ret = FALSE /\ Count("commit") = 0

C1_Witness ==
    /\ pc = "done"
    /\ ret = FALSE
    /\ \E i \in Indices("validate") : Not200(log[i])
    /\ Count("commit") = 0

(***************************************************************************)
(* C2.  Reuse fast path: when _ensure_authenticated loads a persisted      *)
(* session and the dashboard probe on it succeeds, it returns success and  *)
(* the call issues no entry GET, no credential POST and no post-back POST. *)
(***************************************************************************)
C2_ReuseFastPath ==
    FastPath =>
        /\ authenticated = "ok"
        /\ Count("entry") = 0
        /\ Count("credentials") = 0
        /\ Count("postback") = 0

C2_Witness ==
    /\ FastPath
    /\ authenticated = "ok"
    /\ pc = "done"
    /\ ret = TRUE
    /\ Count("entry") = 0

(***************************************************************************)
(* C3.  For every date value, apply_coa called with neither time_in nor    *)
(* time_out returns failure without any network call: no probe, no login   *)
(* request, no validate or commit POST.                                    *)
(***************************************************************************)
C3_NoTimeNoNetwork ==
    (time_in = None /\ time_out = None /\ pc # "idle") =>
        Returned /\ ret = FALSE /\ log = <<>>

C3_Witness ==
    /\ pc = "done"
    /\ time_in = None
    /\ time_out = None
    /\ StrptimeYmd(target_date)
    /\ file.kind = "session"
    /\ ret = FALSE
    /\ log = <<>>

(***************************************************************************)
(* C4.  For every date string that strptime rejects, apply_coa called with *)
(* at least one time returns failure without any network call having been  *)
(* made in that call.                                                      *)
(***************************************************************************)
C4_BadDateNoNetwork ==
    (/\ pc = "done"
     /\ ~Falsy(time_in) \/ ~Falsy(time_out)
     /\ ~StrptimeYmd(target_date)) =>
        ret = FALSE /\ log = <<>>

\* the credential POST carried the configured username and password
ConfiguredCredentials(e) ==
    e.data.username = username /\ e.data.password = password

(***************************************************************************)
(* C5.  When load_session fails in _ensure_authenticated, or the probe of  *)
(* the loaded session fails, _ensure_authenticated runs the Authentication *)
(* Flow before it returns: the entry GET is issued once, the credential    *)
(* POST follows a successful entry GET and carries the configured username *)
(* and password, and the result is success only if the entry GET, the      *)
(* credential POST, the post-back POST and the final probe all succeeded.  *)
(***************************************************************************)
FlowSucceededAt(i) ==
    /\ i + 3 <= Len(log)
    /\ log[i].req = "entry" /\ Ok200(log[i])
    /\ log[i + 1].req = "credentials" /\ Ok200(log[i + 1])
    /\ ConfiguredCredentials(log[i + 1])
    /\ log[i + 2].req = "postback" /\ ~log[i + 2].resp.raised
    /\ ProbePassed(log[i + 3])

C5_FallbackRunsAuthenticationFlow ==
    (authenticated # "pending" /\ ~FastPath) =>
        /\ Count("entry") = 1
        /\ \A i \in Indices("entry") :
              i = 1 \/ (i = 2 /\ log[1].req = "probe" /\ ~ProbePassed(log[1]))
        /\ \A i \in Indices("credentials") :
              /\ i > 1
              /\ log[i - 1].req = "entry"
              /\ Ok200(log[i - 1])
              /\ ConfiguredCredentials(log[i])
        /\ authenticated = "ok" => \E i \in Indices("entry") : FlowSucceededAt(i)

C5_Witness ==
    /\ authenticated = "ok"
    /\ ~FastPath
    /\ Len(log) >= 5
    /\ log[1].req = "probe"
    /\ FlowSucceededAt(2)
    /\ username = "alice"

(***************************************************************************)
(* C6.  In every apply_coa call the identity GET, the validate POST and    *)
(* the commit POST are issued only after _ensure_authenticated returned    *)
(* success in that call; if it returned failure, apply_coa returns failure *)
(* and none of the three requests is issued.                               *)
(***************************************************************************)
Submission == {"identity", "validate", "commit"}

C6_SubmissionOnlyAfterAuthentication ==
    /\ [](authenticated = "failed" =>
             /\ Returned
             /\ ret = FALSE
             /\ \A i \in 1..Len(log) : log[i].req \notin Submission)
    /\ [][(Len(log') = Len(log) + 1 /\ log'[Len(log')].req \in Submission)
             => authenticated = "ok"]_vars

C6_Witness ==
    /\ authenticated = "failed"
    /\ pc = "done"
    /\ Count("credentials") = 1
    /\ ~Falsy(time_in)
    /\ StrptimeYmd(target_date)

(***************************************************************************)
(* C7.  If _get_employee_id yields no identity token, apply_coa returns    *)
(* failure and neither the validate POST nor the commit POST is issued.    *)
(***************************************************************************)
C7_NoIdentityNoSubmission ==
    (Count("identity") > 0 /\ employee_id = NoId) =>
        /\ Returned
        /\ ret = FALSE
        /\ Count("validate") = 0
        /\ Count("commit") = 0

C7_Witness ==
    /\ pc = "done"
    /\ \E i \in Indices("identity") : Ok200(log[i]) /\ log[i].resp.doc # EmptyDoc
    /\ employee_id = NoId
    /\ ret = FALSE

(***************************************************************************)
(* C8.  Whenever apply_coa returns success, exactly one validate POST and  *)
(* exactly one commit POST were issued in that call, validate before       *)
(* commit, both answered with status 200, both with the same payload.      *)
(***************************************************************************)
C8_SuccessMeansValidateThenCommit ==
    (Returned /\ ret = TRUE) =>
        /\ Count("validate") = 1
        /\ Count("commit") = 1
        /\ \A i \in Indices("validate"), j \in Indices("commit") :
              /\ i < j
              /\ Ok200(log[i])
              /\ Ok200(log[j])
              /\ log[i].data = log[j].data

C8_Witness ==
    /\ Returned
    /\ ret = TRUE
    /\ Len(coa_payload.FormattedCertificateLogs) = 2
    /\ \E j \in Indices("commit") : log[j].data = coa_payload

(***************************************************************************)
(* C9.  If validate returns 200 and the commit POST returns a status other *)
(* than 200, apply_coa returns failure, and the validate endpoint and the  *)
(* commit endpoint were each called exactly once in that call.             *)
(***************************************************************************)
C9_CommitFailureIsFailure ==
    \A j \in Indices("commit") :
        Not200(log[j]) =>
            /\ Returned
            /\ ret = FALSE
            /\ Count("validate") = 1
            /\ Count("commit") = 1
            /\ \A i \in Indices("validate") : Ok200(log[i])

C9_Witness ==
    /\ pc = "done"
    /\ \E j \in Indices("commit") : Not200(log[j]) /\ log[j].resp.body.parses
    /\ Count("validate") = 1
    /\ ret = FALSE

(***************************************************************************)
(* C10.  For every commit response with status 200 whose body parses as    *)
(* JSON, apply_coa returns failure whenever the top-level field 'd' is     *)
(* absent or falsy, also when the JSON value is not an object.             *)
(***************************************************************************)
WrapperMissingOrFalsy(body) ==
    body.t # "object" \/ ~body.has_d \/ ~Truthy(body.d)

C10_NoWrapperIsFailure ==
    \A j \in Indices("commit") :
        (Ok200(log[j]) /\ log[j].resp.body.parses
            /\ WrapperMissingOrFalsy(log[j].resp.body)) =>
                Returned /\ ret = FALSE


(***************************************************************************)
(* C11.  If the commit POST returns status 200 and its body cannot be      *)
(* parsed at all, apply_coa returns success.                               *)
(***************************************************************************)
C11_UnparsableCommitIsSuccess ==
    \A j \in Indices("commit") :
        (Ok200(log[j]) /\ ~log[j].resp.body.parses) => Returned /\ ret = TRUE

C11_Witness ==
    /\ pc = "done"
    /\ ret = TRUE
    /\ \E j \in Indices("commit") : Ok200(log[j]) /\ ~log[j].resp.body.parses


(***************************************************************************)
(* The session store on its own: a program that sets cookies on a session, *)
(* saves it, makes new ENGIEHRLogin objects and loads the file into them.   *)
(* store_hist remembers the last operation, its result, the token set held *)
(* at the last successful save and the jar before the last load.           *)
(***************************************************************************)
TokenSets == UNION {[S -> CookieValues] : S \in SUBSET CookieNames}

nonStoreVars_but_shared ==
    <<calls, username, password, dashboard_cookies, auth_params,
      login_action_url, target_date, time_in, time_out, reason, type_other,
      postback, certificate_logs, employee_id, coa_payload, authenticated,
      reused, log, printed, resolved, server_cookies, mcp_file, mcp, loopVars,
      scriptVars>>

nonStoreVars == <<nonStoreVars_but_shared, shared>>

InitStore ==
    /\ pc = "store"
    /\ calls = 0
    /\ username = DefaultUsername
    /\ password = DefaultPassword
    /\ cookies = NoCookies
    /\ dashboard_cookies = NoCookies
    /\ auth_params = NoCookies
    /\ login_action_url = None
    /\ file \in InitialFiles
    /\ target_date = <<>>
    /\ time_in = None
    /\ time_out = None
    /\ reason = None
    /\ type_other = None
    /\ postback = NoPostBack
    /\ certificate_logs = <<>>
    /\ employee_id = NoId
    /\ coa_payload = NoPayload
    /\ authenticated = "pending"
    /\ reused = FALSE
    /\ ret = FALSE
    /\ log = <<>>
    /\ store_hist = NoHistory
    /\ printed = NoLine
    /\ resolved = <<>>
    /\ server_cookies = NoCookies
    /\ mcp_file = NoFile
    /\ mcp = NoToolCall
    /\ tasks = NoTasks
    /\ running = 0
    /\ wire = <<>>
    /\ shared = NoShared
    /\ test_file = NoFile
    /\ script = NoScript

\* self.session.cookies.set(name, value)
store_set_cookie(n, v) ==
    /\ pc = "store"
    /\ cookies' = [x \in {n} |-> v] @@ cookies
    /\ store_hist' = [store_hist EXCEPT !.op = "set"]
    /\ UNCHANGED <<pc, file, ret, nonStoreVars>>

\* save_session(filename)
store_save(writable) ==
    /\ pc = "store"
    /\ file' = SavedFile(Jar, SaveWrites(writable), file)
    /\ ret' = writable
    /\ store_hist' = AfterSave(store_hist, Jar, SaveWrites(writable))
    /\ UNCHANGED <<pc, cookies, nonStoreVars>>

\* ENGIEHRLogin(): another object, with an empty jar
store_new_instance ==
    /\ pc = "store"
    /\ cookies' = NoCookies
    /\ store_hist' = [store_hist EXCEPT !.op = "new"]
    /\ UNCHANGED <<pc, file, ret, nonStoreVars>>

store_load_clears_on_failure ==
    /\ pc = "store"
    /\ cookies' = IF LoadSucceeds(file) THEN LoadedCookies(file, cookies) ELSE NoCookies
    /\ ret' = LoadSucceeds(file)
    /\ store_hist' = AfterLoad(store_hist, file, cookies)
    /\ UNCHANGED <<pc, file, nonStoreVars>>

\* load_session(filename)
store_load ==
    /\ pc = "store"
    /\ cookies' = IF LoadSucceeds(file) THEN LoadedCookies(file, cookies) ELSE cookies
    /\ ret' = LoadSucceeds(file)
    /\ store_hist' = AfterLoad(store_hist, file, cookies)
    /\ UNCHANGED <<pc, file, nonStoreVars>>

NextStore ==
    \/ \E n \in CookieNames, v \in CookieValues : store_set_cookie(n, v)
    \/ \E writable \in BOOLEAN : store_save(writable)
    \/ store_new_instance
    \/ store_load

SpecStore == InitStore /\ [][NextStore]_vars

\* a token set as a set of name/value pairs
Pairs(jar) == {<<n, jar[n]>> : n \in DOMAIN jar}

(***************************************************************************)
(* C12.  Round trip: for every token set T (a name-to-value mapping),      *)
(* save_session of a session holding T followed by load_session from the   *)
(* same location, into a new session or into the saving one, succeeds and  *)
(* yields a session whose set of name/value pairs equals T.                *)
(***************************************************************************)
C12_RoundTrip ==
    (/\ store_hist.op = "load"
     /\ store_hist.written
     /\ store_hist.before \in {NoCookies, store_hist.saved}) =>
        /\ store_hist.load = "True"
        /\ Pairs(cookies) = Pairs(store_hist.saved)

C12_Witness ==
    /\ store_hist.op = "load"
    /\ store_hist.written
    /\ store_hist.before = NoCookies
    /\ DOMAIN store_hist.saved = CookieNames
    /\ store_hist.saved["ASP.NET_SessionId"] # store_hist.saved["KEYCLOAK_IDENTITY"]
    /\ Pairs(cookies) = Pairs(store_hist.saved)


(***************************************************************************)
(* C13.  A storage failure never by itself makes _ensure_authenticated     *)
(* fail: when load_session fails (file missing or not well-formed) the     *)
(* call goes on to the fresh authentication, and when the fresh            *)
(* authentication and its probe succeed, _ensure_authenticated returns     *)
(* success also if save_session failed.                                    *)
(***************************************************************************)
C13_StorageFailureIsNotFatal ==
    /\ store_hist.load = "False" =>
          \/ pc = "entry" /\ authenticated = "pending"
          \/ Len(log) >= 1 /\ log[1].req = "entry"
    /\ (\E i \in 1..Len(log) : FlowSucceededAt(i)) => authenticated = "ok"
    /\ store_hist.save = "False" => authenticated = "ok"

C13_Witness ==
    /\ pc = "done"
    /\ file.kind = "corrupt"
    /\ store_hist.load = "False"
    /\ store_hist.save = "False"
    /\ FlowSucceededAt(1)
    /\ authenticated = "ok"
    /\ ret = TRUE

(***************************************************************************)
(* C14.  Starting with no persisted session, whenever                      *)
(* _ensure_authenticated returns success after a fresh Authentication      *)
(* Flow, a session file exists at the configured location.                 *)
(* C14_FreshLoginLeavesFile is the statement as claimed;                   *)
(* C14_FreshLoginLeavesFileIfSaved is the statement for the runs in which  *)
(* save_session succeeded: then the file holds the session's tokens.       *)
(***************************************************************************)
StartedWithoutFile == store_hist.message = "No existing session file found"

C14_FreshLoginLeavesFile ==
    (StartedWithoutFile /\ authenticated = "ok") => file.kind = "session"

C14_FreshLoginLeavesFileIfSaved ==
    (StartedWithoutFile /\ authenticated = "ok" /\ store_hist.save = "True") =>
        /\ file.kind = "session"
        /\ Pairs(ParseMembers(file.cookies)) = Pairs(Jar)

C14_Witness ==
    /\ StartedWithoutFile
    /\ authenticated = "ok"
    /\ store_hist.save = "True"
    /\ file.kind = "session"
    /\ file.cookies # <<>>

(***************************************************************************)
(* C15.  No record written by save_session contains the configured         *)
(* username or password: it holds the session tokens and the transport     *)
(* headers only.                                                           *)
(***************************************************************************)
Secrets == {username, password}

C15_NoCredentialsPersisted ==
    store_hist.written =>
        /\ file.kind = "session"
        /\ file.headers \notin Secrets
        /\ \A i \in 1..Len(file.cookies) :
              /\ file.cookies[i][1] \in CookieNames
              /\ file.cookies[i][2] \notin Secrets

C15_Witness ==
    /\ store_hist.written
    /\ username = "alice"
    /\ Count("credentials") = 1
    /\ Len(file.cookies) >= 1


(***************************************************************************)
(* C16.  The fresh authentication is strictly linear: the credential POST  *)
(* is issued only after get_initial_auth_params succeeded, the post-back   *)
(* only after the credential POST returned 200 with a form, a fresh login  *)
(* is authenticated only through the landing check, and once a step has    *)
(* failed no further request is issued: the call has failed and returned.  *)
(***************************************************************************)
FlowRequests == {"entry", "credentials", "postback"}

\* the step of the flow whose exchange is e did not pass its check
StepFailed(e) ==
    CASE e.req = "entry" -> ~EntrySucceeds(e.resp)
      [] e.req = "credentials" ->
            ~(Ok200(e) /\ e.resp.body.form.present /\ e.resp.body.form.action # None)
      [] e.req = "postback" -> ~LandedOnDashboard(e.resp)
      [] OTHER -> FALSE

C16_LinearFlow ==
    /\ \A i \in Indices("credentials") :
          i > 1 /\ log[i - 1].req = "entry" /\ EntrySucceeds(log[i - 1].resp)
    /\ \A i \in Indices("postback") :
          /\ i > 1
          /\ log[i - 1].req = "credentials"
          /\ Ok200(log[i - 1])
          /\ log[i - 1].resp.body.form.present
    /\ (authenticated = "ok" /\ ~FastPath) =>
          \E i \in Indices("postback") :
              /\ LandedOnDashboard(log[i].resp)
              /\ i < Len(log)
              /\ ProbePassed(log[i + 1])
    /\ \A i \in 1..Len(log) :
          StepFailed(log[i]) =>
              i = Len(log) /\ authenticated = "failed" /\ pc = "done" /\ ret = FALSE

C16_Witness ==
    /\ pc = "done"
    /\ authenticated = "failed"
    /\ Len(log) = 3
    /\ log[1].req = "entry"
    /\ log[2].req = "credentials"
    /\ log[3].req = "postback"
    /\ ~log[3].resp.raised
    /\ log[3].resp.url = PortalLoginUrl

(***************************************************************************)
(* C17.  No step is retried: within one _ensure_authenticated the entry    *)
(* GET, the credential POST and the post-back POST are each issued at most *)
(* once, and the only second attempt at a session is the one fallback from *)
(* the reuse of the stored session to the fresh login.                     *)
(***************************************************************************)
C17_NoRetry ==
    /\ Count("entry") <= 1
    /\ Count("credentials") <= 1
    /\ Count("postback") <= 1
    /\ Count("probe") <= 2
    /\ Count("entry") = 1 =>
          \/ log[1].req = "entry"
          \/ log[1].req = "probe" /\ ~ProbePassed(log[1]) /\ log[2].req = "entry"
    /\ Count("probe") = 2 =>
          /\ log[1].req = "probe" /\ ~ProbePassed(log[1])
          /\ log[2].req = "entry"
          /\ log[3].req = "credentials"
          /\ log[4].req = "postback"
          /\ log[5].req = "probe"

C17_Witness ==
    /\ pc = "done"
    /\ Count("probe") = 2
    /\ Count("entry") = 1
    /\ Count("credentials") = 1
    /\ Count("postback") = 1
    /\ ~ProbePassed(log[5])
    /\ authenticated = "failed"


(***************************************************************************)
(* C18.  Every failure of the Authentication Flow surfaces to its caller a *)
(* reason that distinguishes the failing step, so that two runs failing    *)
(* for different reasons return distinguishable results.                   *)
(* C18_ReasonsDistinguishable is the statement as claimed: a run that      *)
(* would fail for another reason returns something else than this run.     *)
(* C18_ReasonsOnlyPrinted is the statement the code satisfies: every       *)
(* failing step returns False, and the reason shows only in the line the   *)
(* step prints, which differs between any two of the seven reasons.        *)
(***************************************************************************)
Responses(step) ==
    CASE step = "entry" -> EntryResponses
      [] step = "credentials" -> CredentialResponses
      [] step = "postback" -> PostBackResponses

\* the reason of a failing exchange, "other" outside the seven named ones
FailureReason(step, resp, conflict) ==
    CASE step = "entry" ->
            IF resp.raised \/ resp.status # 200 THEN "other"
            ELSE IF ~InUrl(SsoHost, resp.url) THEN "unexpected-host"
            ELSE IF ~resp.form.present THEN "no-login-form"
            ELSE "no-form-action"
      [] step = "credentials" ->
            IF resp.raised THEN "other"
            ELSE IF resp.status # 200 THEN "login-http-error"
            ELSE IF resp.body.error THEN "invalid-credentials"
            ELSE "no-post-back"
      [] step = "postback" ->
            IF resp.raised \/ (LandedOnDashboard(resp) /\ conflict) THEN "other"
            ELSE "unexpected-landing"

StepMessage(step, resp, conflict) ==
    CASE step = "entry" -> EntryMessage(resp)
      [] step = "credentials" -> LoginMessage(resp)
      [] step = "postback" -> LandingMessage(resp, conflict)

FlowFailed ==
    /\ authenticated = "failed"
    /\ Len(log) >= 1
    /\ log[Len(log)].req \in FlowRequests

\* the reason of the failure of this run
ThisReason ==
    FailureReason(log[Len(log)].req, log[Len(log)].resp,
                  JarConflict(cookies, server_cookies))

C18_ReasonsDistinguishable ==
    FlowFailed =>
        \A step \in FlowRequests : \A r \in Responses(step) : \A c \in BOOLEAN :
            (~StepReturn(step, r, c) /\ FailureReason(step, r, c) # ThisReason) =>
                StepReturn(step, r, c) # (authenticated = "ok")

C18_ReasonsOnlyPrinted ==
    FlowFailed =>
        /\ pc = "done" /\ ret = FALSE
        /\ \A step \in FlowRequests : \A r \in Responses(step) : \A c \in BOOLEAN :
              ~StepReturn(step, r, c) =>
                  /\ StepReturn(step, r, c) = (authenticated = "ok")
                  /\ ({FailureReason(step, r, c), ThisReason} \cap {"other"} = {}
                        /\ FailureReason(step, r, c) # ThisReason)
                       => StepMessage(step, r, c) # printed

C18_Witness ==
    /\ FlowFailed
    /\ ThisReason = "no-form-action"
    /\ printed = "Could not extract login action URL"
    /\ ret = FALSE


(***************************************************************************)
(* C19.  load_session never raises past its caller, returns a 'not found'  *)
(* failure when the location does not exist, and returns a failure         *)
(* distinct from 'not found' when the content is not well-formed.          *)
(* C19_CorruptDistinctFromMissing is the statement as claimed;             *)
(* C19_LoadFailuresOnlyPrinted is the statement the code satisfies: both   *)
(* failures return False and differ only in the line printed.              *)
(***************************************************************************)
Malformed(f) == f.kind \in {"corrupt", "notobject"}

C19_CorruptDistinctFromMissing ==
    store_hist.op = "load" =>
        /\ store_hist.load # "raised"
        /\ file.kind = "missing" => store_hist.load = "False"
        /\ Malformed(file) =>
              /\ store_hist.load # "True"
              /\ store_hist.load # LoadResult(NoFile)

C19_LoadFailuresOnlyPrinted ==
    store_hist.op = "load" =>
        /\ store_hist.load \in {"True", "False"}
        /\ ret = (store_hist.load = "True")
        /\ file.kind = "missing" =>
              /\ store_hist.load = "False"
              /\ store_hist.message = "No existing session file found"
        /\ Malformed(file) =>
              /\ store_hist.load = "False"
              /\ store_hist.message = "Error loading session"
              /\ cookies = store_hist.before

C19_Witness ==
    /\ pc = "store"
    /\ store_hist.op = "load"
    /\ file.kind = "corrupt"
    /\ store_hist.load = "False"
    /\ store_hist.message = "Error loading session"
    /\ cookies # NoCookies


(***************************************************************************)
(* C20.  _get_employee_id tries its three strategies in the fixed order    *)
(* script variable, hidden input, data attribute and returns the value of  *)
(* the first strategy that yields a positive integer; a candidate that is  *)
(* not a positive integer does not end the search, and 'not found' is      *)
(* returned only when no strategy yields one.                              *)
(***************************************************************************)
Candidates(doc) ==
    <<JsStrategy(doc.js), HiddenStrategy(doc.hidden), DataStrategy(doc.data)>>

C20_FirstPositiveCandidate ==
    \A i \in Indices("identity") :
        Ok200(log[i]) =>
            LET c == Candidates(log[i].resp.doc)
                positive == {k \in 1..3 : c[k] > 0}
            IN /\ positive # {} =>
                     employee_id = c[CHOOSE k \in positive : \A m \in positive : k <= m]
               /\ employee_id = NoId => positive = {}


(***************************************************************************)
(* The identity resolver on its own: _get_employee_id called repeatedly on *)
(* one object, as integration_test.py does, with cookies set on the        *)
(* object's session in between.  resolved keeps, for every call, the       *)
(* response fetched, the jar the object had, and the value returned.       *)
(***************************************************************************)
InitIdentity == InitStore /\ file = NoFile

resolve_employee_id(resp) ==
    /\ pc = "store"
    /\ Len(resolved) < MaxResolves
    /\ employee_id' = GetEmployeeId(resp)
    /\ resolved' = Append(resolved, [resp |-> resp, jar |-> cookies, id |-> employee_id'])
    /\ UNCHANGED <<pc, calls, username, password, cookies, dashboard_cookies,
                   auth_params, login_action_url, file, target_date, time_in,
                   time_out, reason, type_other, postback, certificate_logs,
                   coa_payload, authenticated, reused, ret, log, store_hist, printed,
                   server_cookies, mcp_file, mcp, loopVars, scriptVars, shared>>

NextIdentity ==
    \/ \E resp \in IdentityResponses : resolve_employee_id(resp)
    \/ \E v \in FreshTokens : store_set_cookie("ASP.NET_SessionId", v)

SpecIdentity == InitIdentity /\ [][NextIdentity]_vars

MarkerAnd200(e) == ~e.resp.raised /\ e.resp.status = 200 /\ e.resp.marker

C22_ProbeIff ==
    \A i \in Indices("probe") :
        IF MarkerAnd200(log[i])
        THEN /\ authenticated = "ok"
             /\ i = 1 => reused
        ELSE IF i > 1
        THEN /\ log[i - 1].req = "postback"
             /\ authenticated = "failed"
             /\ i = Len(log)
             /\ pc = "done"
        ELSE /\ ~reused
             /\ \/ pc = "entry" /\ Len(log) = 1
                \/ Len(log) > 1 /\ log[2].req = "entry"

C22_Witness ==
    /\ Len(log) = 5
    /\ log[1].req = "probe"
    /\ ~log[1].resp.raised /\ log[1].resp.status = 500 /\ log[1].resp.marker
    /\ log[5].req = "probe"
    /\ ~log[5].resp.raised /\ log[5].resp.status = 200 /\ ~log[5].resp.marker
    /\ authenticated = "failed"


(***************************************************************************)
(* C23.  A transport exception at any HTTP step never propagates out of    *)
(* the operation that issued the request: the operation returns its        *)
(* failure value, and during authentication the overall result is          *)
(* authentication failure.                                                 *)
(* C23_ExceptionFailsAuthentication is the statement as claimed, the probe *)
(* of a loaded session included.  C23_ExceptionEndsTheStep is the          *)
(* statement the code satisfies: an exception in the probe of a loaded     *)
(* session only ends the reuse and the login starts; an exception in the   *)
(* entry GET, the credential POST, the post-back or the probe after the    *)
(* login makes _ensure_authenticated and apply_coa return failure; an      *)
(* exception in the identity GET, the validate POST or the commit POST     *)
(* makes apply_coa return failure.  No request follows any of the latter.  *)
(***************************************************************************)
AuthenticationRequests == {"probe", "entry", "credentials", "postback"}

Raised(i) == log[i].resp.raised

C23_ExceptionFailsAuthentication ==
    Returned =>
        \A i \in 1..Len(log) :
            (Raised(i) /\ log[i].req \in AuthenticationRequests) =>
                authenticated = "failed" /\ ret = FALSE

C23_ExceptionEndsTheStep ==
    /\ ret \in BOOLEAN
    /\ authenticated \in {"pending", "ok", "failed"}
    /\ \A i \in 1..Len(log) :
          Raised(i) =>
              IF log[i].req = "probe" /\ i = 1
              THEN /\ ~reused
                   /\ \/ pc = "entry" /\ Len(log) = 1
                      \/ Len(log) > 1 /\ log[2].req = "entry"
              ELSE /\ i = Len(log)
                   /\ pc = "done"
                   /\ ret = FALSE
                   /\ log[i].req \in AuthenticationRequests => authenticated = "failed"
                   /\ log[i].req \notin AuthenticationRequests => authenticated = "ok"
                   /\ log[i].req = "identity" => employee_id = NoId

C23_Witness ==
    /\ pc = "done"
    /\ Len(log) = 7
    /\ Raised(1) /\ log[1].req = "probe"
    /\ FlowSucceededAt(2)
    /\ log[6].req = "identity"
    /\ log[7].req = "validate" /\ Raised(7)
    /\ ret = FALSE


(***************************************************************************)
(* C24.  get_initial_auth_params fails for every final URL whose host is   *)
(* not the identity-provider host, including the URLs that mention that    *)
(* host name only in their path or query string.                           *)
(***************************************************************************)
C24_ForeignHostFails ==
    \A i \in Indices("entry") :
        log[i].resp.url.host # SsoHost =>
            /\ i = Len(log)
            /\ authenticated = "failed"
            /\ pc = "done"


(***************************************************************************)
(* C25.  perform_login returns success if and only if the credential POST  *)
(* returned status 200, its body holds a form with an action, and the      *)
(* final URL of the post-back POST contains both the portal host and the   *)
(* dashboard path; in every other case it returns failure and              *)
(* dashboard_cookies is left unchanged.                                    *)
(***************************************************************************)
\* the final URL of exchange e contains the portal host and the dashboard path
ReachedDashboardUrl(e) ==
    /\ ~e.resp.raised
    /\ InUrl(PortalHost, e.resp.url)
    /\ InUrl(DashboardPath, e.resp.url)

\* perform_login has returned failure: _ensure_authenticated ended there
LoginReturnedFailure(i) == i = Len(log) /\ authenticated = "failed"

C25_LoginIff ==
    /\ [](/\ \A i \in Indices("postback") :
               ReachedDashboardUrl(log[i]) <=> ~LoginReturnedFailure(i)
          /\ \A i \in Indices("credentials") :
               ~(Ok200(log[i]) /\ log[i].resp.body.form.present
                    /\ log[i].resp.body.form.action # None)
                 => LoginReturnedFailure(i))
    /\ [][(pc \in {"credentials", "postback"} /\ authenticated' = "failed")
             => dashboard_cookies' = dashboard_cookies]_vars


(***************************************************************************)
(* C26.  Every payload apply_coa sends carries exactly one log record per  *)
(* provided time and no other record: one or two records, an 'In' record   *)
(* if and only if time_in was given, an 'Out' record if and only if        *)
(* time_out was given, 'In' before 'Out', each with the target date and    *)
(* CertificateLogID 0.  A time is given when it is neither None nor empty. *)
(***************************************************************************)
Given(t) == t # None /\ t # ""

\* the positions of the records of type ty in the record list recs
OfType(recs, ty) == {k \in 1..Len(recs) : recs[k].Type = ty}

C26_OneRecordPerTime ==
    \A i \in Indices("validate") \cup Indices("commit") :
        LET recs == log[i].data.FormattedCertificateLogs
        IN /\ Len(recs) \in {1, 2}
           /\ \A k \in 1..Len(recs) :
                 /\ recs[k].Type \in {"In", "Out"}
                 /\ recs[k].FormattedDate = target_date
                 /\ recs[k].CertificateLogID = 0
                 /\ recs[k].FormattedTime = IF recs[k].Type = "In" THEN time_in ELSE time_out
           /\ Cardinality(OfType(recs, "In")) = IF Given(time_in) THEN 1 ELSE 0
           /\ Cardinality(OfType(recs, "Out")) = IF Given(time_out) THEN 1 ELSE 0
           /\ \A a \in OfType(recs, "In"), b \in OfType(recs, "Out") : a < b

C26_Witness ==
    /\ Count("commit") = 1
    /\ time_in = ""
    /\ time_out = "17:30"
    /\ Len(log[Len(log)].data.FormattedCertificateLogs) = 1
    /\ log[Len(log)].data.FormattedCertificateLogs[1].Type = "Out"


(***************************************************************************)
(* C27.  _ensure_authenticated never deletes the persisted session file:   *)
(* when the probe of a loaded session fails and the fresh authentication   *)
(* that follows fails too, the file is still there with unchanged content. *)
(* The file changes only when save_session writes it after a successful    *)
(* login, and what was loaded from it is still what it holds.              *)
(***************************************************************************)
\* every cookie persisted in f is in the jar with the persisted value
HoldsWhatWasLoaded(f) ==
    \A k \in 1..Len(f.cookies) :
        /\ f.cookies[k][1] \in DOMAIN cookies
        /\ cookies[f.cookies[k][1]] = ParseMembers(f.cookies)[f.cookies[k][1]]

C27_FileNeverDeleted ==
    /\ []((store_hist.load = "True" /\ authenticated # "ok") =>
             file.kind = "session" /\ HoldsWhatWasLoaded(file))
    /\ [][file' # file =>
             /\ pc = "probe_fresh"
             /\ authenticated' = "ok"
             /\ file'.kind = "session"]_vars

C27_Witness ==
    /\ pc = "done"
    /\ authenticated = "failed"
    /\ store_hist.load = "True"
    /\ Len(log) >= 3
    /\ log[1].req = "probe"
    /\ log[2].req = "entry"
    /\ file.kind = "session"
    /\ Len(file.cookies) = 2


(***************************************************************************)
(* The MCP server, src/mcp_server.py.  One ENGIEHRLogin() object lives as  *)
(* long as the server.  A tool call runs the server's own                  *)
(* _ensure_authenticated on it, with the server's session file, and then   *)
(* the handler of the tool; the handler of apply_coa calls                 *)
(* hr_login.apply_coa, which runs the object's own _ensure_authenticated   *)
(* with the object's session file.  log holds the requests of the tool     *)
(* call.                                                                   *)
(***************************************************************************)
McpSessionFiles ==
    { NoFile,
      SessionRecord(NoCookies),
      SessionRecord([n \in {"ASP.NET_SessionId"} |-> "t1"]) }

ToolNames == {"apply_coa", "other"}
ToolDates == {<<>>, Date("2025-07-20")}
ToolTimesIn == {None, "09:32"}
ToolTimesOut == {None}

InitMcp ==
    /\ pc = "mcp_idle"
    /\ calls = 0
    /\ username = DefaultUsername
    /\ password = DefaultPassword
    /\ cookies = NoCookies
    /\ server_cookies = NoCookies
    /\ dashboard_cookies = NoCookies
    /\ auth_params = NoCookies
    /\ login_action_url = None
    /\ file \in McpSessionFiles
    /\ mcp_file \in McpSessionFiles
    /\ mcp = NoToolCall
    /\ tasks = NoTasks
    /\ running = 0
    /\ wire = <<>>
    /\ shared = NoShared
    /\ test_file = NoFile
    /\ script = NoScript
    /\ target_date = <<>>
    /\ time_in = None
    /\ time_out = None
    /\ reason = None
    /\ type_other = None
    /\ postback = NoPostBack
    /\ certificate_logs = <<>>
    /\ employee_id = NoId
    /\ coa_payload = NoPayload
    /\ authenticated = "pending"
    /\ reused = FALSE
    /\ ret = FALSE
    /\ log = <<>>
    /\ store_hist = NoHistory
    /\ printed = NoLine
    /\ resolved = <<>>

\* what a step of the server's _ensure_authenticated leaves alone
mcpFrame ==
    <<calls, objVars, argVars, coaVars, authenticated, reused, ret, file, resolved,
      loopVars, scriptVars, shared>>

\* handle_call_tool, lines 129-132: a tool call arrives
mcp_call_tool(name, d, ti, to) ==
    /\ pc = "mcp_idle"
    /\ calls < MaxToolCalls
    /\ mcp' = [tool |-> [name |-> name, date |-> d, time_in |-> ti, time_out |-> to],
               auth |-> "pending", text |-> "none"]
    /\ pc' = "mcp_load"
    /\ UNCHANGED <<mcpFrame, cookies, server_cookies, loginVars, mcp_file, log,
                   store_hist>>

\* the server's _ensure_authenticated returns False: lines 133-137
McpAuthenticationFailed ==
    /\ mcp' = [mcp EXCEPT !.auth = "failed", !.text = "Failed to authenticate"]
    /\ pc' = "mcp_done"

mcp_load_session_result_cached ==
    /\ pc = "mcp_load"
    /\ IF dashboard_cookies # NoCookies
       THEN /\ cookies' = cookies
            /\ mcp' = [mcp EXCEPT !.auth = "ok"]
            /\ pc' = "mcp_dispatch"
       ELSE /\ mcp' = mcp
            /\ IF LoadSucceeds(mcp_file)
               THEN cookies' = LoadedCookies(mcp_file, cookies) /\ pc' = "mcp_probe"
               ELSE cookies' = cookies /\ pc' = "mcp_entry"
    /\ store_hist' = AfterLoad(store_hist, mcp_file, cookies)
    /\ UNCHANGED <<mcpFrame, server_cookies, loginVars, mcp_file, log>>

\* _ensure_authenticated of the server, line 165: load_session(session_file)
mcp_load_session ==
    /\ pc = "mcp_load"
    /\ IF LoadSucceeds(mcp_file)
       THEN cookies' = LoadedCookies(mcp_file, cookies) /\ pc' = "mcp_probe"
       ELSE cookies' = cookies /\ pc' = "mcp_entry"
    /\ store_hist' = AfterLoad(store_hist, mcp_file, cookies)
    /\ UNCHANGED <<mcpFrame, server_cookies, loginVars, mcp_file, mcp, log>>

\* lines 166-170: the probe of the loaded session
mcp_probe_loaded(resp) ==
    /\ pc = "mcp_probe"
    /\ log' = Append(log, Request("probe", resp, None))
    /\ IF ProbeSucceeds(resp)
       THEN mcp' = [mcp EXCEPT !.auth = "ok"] /\ pc' = "mcp_dispatch"
       ELSE mcp' = mcp /\ pc' = "mcp_entry"
    /\ UNCHANGED <<mcpFrame, cookies, server_cookies, loginVars, mcp_file, store_hist>>

\* lines 175-177: get_initial_auth_params()
mcp_get_initial_auth_params(resp) ==
    /\ pc = "mcp_entry"
    /\ log' = Append(log, Request("entry", resp, None))
    /\ printed' = EntryMessage(resp)
    /\ auth_params' =
          IF ~resp.raised /\ resp.status = 200 /\ EntryHostOk(resp)
          THEN CollapseSingles(ParseQs(resp.url.query))
          ELSE auth_params
    /\ IF EntrySucceeds(resp)
       THEN login_action_url' = resp.form.action /\ pc' = "mcp_credentials" /\ mcp' = mcp
       ELSE login_action_url' = login_action_url /\ McpAuthenticationFailed
    /\ UNCHANGED <<mcpFrame, cookies, server_cookies, postback, dashboard_cookies,
                   mcp_file, store_hist>>

\* lines 179-181: perform_login(DEFAULT_USERNAME, DEFAULT_PASSWORD), the
\* credential POST
mcp_perform_login(resp) ==
    /\ pc = "mcp_credentials"
    /\ log' = Append(log, Request("credentials", resp,
                                  LoginData(DefaultUsername, DefaultPassword)))
    /\ printed' = LoginMessage(resp)
    /\ IF CredentialsAccepted(resp)
       THEN /\ postback' = [action |-> resp.body.form.action,
                            form_data |-> FormData(resp.body.form.inputs)]
            /\ pc' = "mcp_postback"
            /\ mcp' = mcp
       ELSE postback' = postback /\ McpAuthenticationFailed
    /\ UNCHANGED <<mcpFrame, cookies, server_cookies, auth_params, login_action_url,
                   dashboard_cookies, mcp_file, store_hist>>

\* perform_login: the post-back POST and the landing check
mcp_post_back(resp) ==
    /\ pc = "mcp_postback"
    /\ log' = Append(log, Request("postback", resp, postback.form_data))
    /\ server_cookies' =
          IF resp.raised THEN server_cookies
          ELSE [n \in {"ASP.NET_SessionId"} |-> resp.setcookie] @@ server_cookies
    /\ printed' = LandingMessage(resp, JarConflict(cookies, server_cookies'))
    /\ IF PostBackSucceeds(resp, JarConflict(cookies, server_cookies'))
       THEN /\ dashboard_cookies' = JarDict(cookies, server_cookies')
            /\ pc' = "mcp_probe_fresh"
            /\ mcp' = mcp
       ELSE dashboard_cookies' = dashboard_cookies /\ McpAuthenticationFailed
    /\ UNCHANGED <<mcpFrame, cookies, auth_params, login_action_url, postback,
                   mcp_file, store_hist>>

\* lines 183-190: the probe after the login, and save_session(session_file)
mcp_probe_fresh(resp, writable) ==
    /\ pc = "mcp_probe_fresh"
    /\ log' = Append(log, Request("probe", resp, None))
    /\ IF ProbeSucceeds(resp)
       THEN /\ mcp_file' = SavedFile(Jar, SaveWrites(writable), mcp_file)
            /\ store_hist' = AfterSave(store_hist, Jar, SaveWrites(writable))
            /\ mcp' = [mcp EXCEPT !.auth = "ok"]
            /\ pc' = "mcp_dispatch"
       ELSE /\ mcp_file' = mcp_file
            /\ store_hist' = store_hist
            /\ McpAuthenticationFailed
    /\ UNCHANGED <<mcpFrame, cookies, server_cookies, loginVars>>

\* handle_call_tool, lines 139-150, and _handle_apply_coa, lines 192-222:
\* the checks of the arguments and the call of hr_login.apply_coa, up to its
\* own check of the times (login.py, lines 422-427)
mcp_handle_tool ==
    /\ pc = "mcp_dispatch"
    /\ IF mcp.tool.name # "apply_coa"
       THEN /\ mcp' = [mcp EXCEPT !.text = "Unknown tool"]
            /\ pc' = "mcp_done"
            /\ UNCHANGED <<argVars, ret>>
       ELSE IF mcp.tool.date = <<>>
       THEN /\ mcp' = [mcp EXCEPT !.text = "Date parameter is required"]
            /\ pc' = "mcp_done"
            /\ UNCHANGED <<argVars, ret>>
       ELSE IF Falsy(mcp.tool.time_in) /\ Falsy(mcp.tool.time_out)
       THEN /\ mcp' = [mcp EXCEPT !.text = "Either time_in or time_out must be provided"]
            /\ pc' = "mcp_done"
            /\ UNCHANGED <<argVars, ret>>
       ELSE /\ mcp' = mcp
            /\ target_date' = mcp.tool.date
            /\ time_in' = mcp.tool.time_in
            /\ time_out' = mcp.tool.time_out
            /\ reason' = DefaultReason
            /\ type_other' = DefaultReason
            /\ ret' = FALSE
            /\ IF NoTimeGiven(mcp.tool.time_in, mcp.tool.time_out)
               THEN pc' = "done" ELSE pc' = "load_session"
    /\ UNCHANGED <<calls, objVars, coaVars, authenticated, reused, file, resolved,
                   cookies, server_cookies, loginVars, mcp_file, log, store_hist,
                   loopVars, scriptVars, shared>>

\* _handle_apply_coa, lines 223-240: the text for the result of apply_coa
mcp_result ==
    /\ pc = "done"
    /\ mcp' = [mcp EXCEPT !.text = IF ret THEN "COA application submitted"
                                   ELSE "COA application failed"]
    /\ pc' = "mcp_done"
    /\ UNCHANGED <<mcpFrame, cookies, server_cookies, loginVars, mcp_file, log,
                   store_hist>>

\* the tool call returns its text; the object and the files stay
mcp_return ==
    /\ pc = "mcp_done"
    /\ pc' = "mcp_idle"
    /\ calls' = calls + 1
    /\ mcp' = NoToolCall
    /\ target_date' = <<>>
    /\ time_in' = None
    /\ time_out' = None
    /\ reason' = None
    /\ type_other' = None
    /\ postback' = NoPostBack
    /\ certificate_logs' = <<>>
    /\ employee_id' = NoId
    /\ coa_payload' = NoPayload
    /\ authenticated' = "pending"
    /\ reused' = FALSE
    /\ ret' = FALSE
    /\ log' = <<>>
    /\ store_hist' = NoHistory
    /\ printed' = NoLine
    /\ UNCHANGED <<objVars, resolved, server_cookies, cookies, dashboard_cookies,
                   auth_params, login_action_url, file, mcp_file, loopVars,
                   scriptVars, shared>>

NextMcp ==
    \/ \E name \in ToolNames, d \in ToolDates, ti \in ToolTimesIn, to \in ToolTimesOut :
          mcp_call_tool(name, d, ti, to)
    \/ mcp_load_session
    \/ \E resp \in ProbeResponses : mcp_probe_loaded(resp)
    \/ \E resp \in EntryResponses : mcp_get_initial_auth_params(resp)
    \/ \E resp \in CredentialResponses : mcp_perform_login(resp)
    \/ \E resp \in PostBackResponses : mcp_post_back(resp)
    \/ \E resp \in ProbeResponses, writable \in BOOLEAN : mcp_probe_fresh(resp, writable)
    \/ mcp_handle_tool
    \/ load_session
    \/ \E resp \in ProbeResponses : probe_loaded(resp)
    \/ \E resp \in EntryResponses : get_initial_auth_params(resp)
    \/ \E resp \in CredentialResponses : perform_login(resp)
    \/ \E resp \in PostBackResponses : post_back(resp)
    \/ \E resp \in ProbeResponses, writable \in BOOLEAN : probe_fresh(resp, writable)
    \/ \E resp \in IdentityResponses : get_employee_id(resp)
    \/ \E resp \in ValidateResponses : validate(resp)
    \/ \E resp \in CommitResponses : commit(resp)
    \/ mcp_result
    \/ mcp_return

SpecMcp == InitMcp /\ [][NextMcp]_vars


(***************************************************************************)
(* C28.  The MCP server never reuses an 'authenticated' result across tool *)
(* calls: every tool call runs the load-and-probe, or the fresh login, of  *)
(* _ensure_authenticated before any action, so a session that expired      *)
(* between two tool calls is detected in the second call before any        *)
(* validate or commit POST.  In every tool call the server's result is     *)
(* success only after a probe of that call passed, the handler runs only   *)
(* after that, and the last probe before every request of the submission   *)
(* passed.                                                                 *)
(***************************************************************************)
ProbesBefore(i) == {j \in Indices("probe") : j < i}

\* the tool call is past the server's _ensure_authenticated
InHandler == pc \notin {"mcp_idle", "mcp_load", "mcp_probe", "mcp_entry",
                        "mcp_credentials", "mcp_postback", "mcp_probe_fresh"}

C28_NoCachedAuthentication ==
    /\ mcp.auth = "ok" => \E j \in Indices("probe") : ProbePassed(log[j])
    /\ (InHandler /\ mcp.auth # "ok") =>
          /\ pc = "mcp_done"
          /\ mcp.auth = "failed"
          /\ \A i \in 1..Len(log) : log[i].req \notin Submission
    /\ \A i \in 1..Len(log) :
          log[i].req \in Submission =>
              /\ ProbesBefore(i) # {}
              /\ \A j \in ProbesBefore(i) :
                    (\A k \in ProbesBefore(i) : k <= j) => ProbePassed(log[j])

C28_Witness ==
    /\ calls = 1
    /\ pc = "mcp_done"
    /\ dashboard_cookies # NoCookies
    /\ mcp_file.kind = "session"
    /\ store_hist.load = "True"
    /\ log[1].req = "probe"
    /\ ~ProbePassed(log[1])
    /\ log[2].req = "entry"
    /\ mcp.auth = "failed"
    /\ Count("validate") = 0


(***************************************************************************)
(* C29.  An MCP apply_coa tool call whose arguments lack a date, or carry  *)
(* neither time_in nor time_out, returns its error text without any HTTP   *)
(* request having been issued during that tool call.                       *)
(***************************************************************************)
ArgumentsRejected ==
    /\ mcp.tool.name = "apply_coa"
    /\ \/ mcp.tool.date = <<>>
       \/ mcp.tool.time_in \in {None, ""} /\ mcp.tool.time_out \in {None, ""}

C29_BadArgumentsNoNetwork ==
    (pc = "mcp_done" /\ ArgumentsRejected) =>
        /\ mcp.text \in {"Date parameter is required",
                         "Either time_in or time_out must be provided"}
        /\ log = <<>>


(***************************************************************************)
(* C30.  During a single MCP tool call the credential POST is issued at    *)
(* most once: after the server's own _ensure_authenticated has succeeded,  *)
(* the _ensure_authenticated that apply_coa runs on the same object does   *)
(* not start a second Authentication Flow, whatever session files exist.   *)
(***************************************************************************)
C30_OneLoginPerToolCall ==
    /\ Count("credentials") <= 1
    /\ mcp.auth = "ok" => pc \notin {"entry", "credentials", "postback", "probe_fresh"}


(***************************************************************************)
(* The event loop of the MCP server.  asyncio.run(main()) runs one event   *)
(* loop on one thread; every tool call is a task running handle_call_tool  *)
(* on the shared self.hr_login.  A task gives the loop to another task     *)
(* only where an await suspends.  The handler awaits _ensure_authenticated *)
(* (line 134) and _handle_apply_coa (line 141), coroutines whose bodies    *)
(* hold no await and whose HTTP calls block the thread.  at is the task's  *)
(* position (none, pending, running, awaiting, finished), step the HTTP    *)
(* step it issues next, seen the length of wire when its request arrived.  *)
(***************************************************************************)
HandlerSteps == <<"authentication", "identity", "validate", "commit">>

Yields_at_await(step) == step = 1

\* whether the await that follows the step suspends the task
Yields(step) == FALSE

InitLoop == InitMcp

nonLoopVars ==
    <<pc, calls, objVars, cookies, server_cookies, loginVars, file, argVars,
      coaVars, authenticated, reused, ret, log, store_hist, resolved, mcp_file,
      mcp, shared, scriptVars>>

\* a tools/call request arrives and waits for the event loop
loop_receive(t) ==
    /\ tasks[t].at = "none"
    /\ tasks' = [tasks EXCEPT ![t].at = "pending", ![t].seen = Len(wire)]
    /\ UNCHANGED <<running, wire, nonLoopVars>>

\* the event loop, running no task, runs one that is ready
loop_run(t) ==
    /\ running = 0
    /\ tasks[t].at \in {"pending", "awaiting"}
    /\ running' = t
    /\ tasks' = [tasks EXCEPT ![t].at = "running",
                              ![t].step = IF tasks[t].at = "pending" THEN 1 ELSE @]
    /\ UNCHANGED <<wire, nonLoopVars>>

\* the running task issues its next HTTP step; a step that fails ends the
\* handler with an error text
loop_http(t, ok) ==
    /\ running = t
    /\ wire' = Append(wire, [task |-> t, req |-> HandlerSteps[tasks[t].step]])
    /\ IF ~ok \/ tasks[t].step = Len(HandlerSteps)
       THEN /\ tasks' = [tasks EXCEPT ![t].at = "finished"]
            /\ running' = 0
       ELSE IF Yields(tasks[t].step)
            THEN /\ tasks' = [tasks EXCEPT ![t].at = "awaiting", ![t].step = @ + 1]
                 /\ running' = 0
            ELSE /\ tasks' = [tasks EXCEPT ![t].step = @ + 1]
                 /\ running' = t
    /\ UNCHANGED nonLoopVars

NextLoop ==
    \/ \E t \in 1..MaxTasks : loop_receive(t)
    \/ \E t \in 1..MaxTasks : loop_run(t)
    \/ \E t \in 1..MaxTasks, ok \in BOOLEAN : loop_http(t, ok)

SpecLoop == InitLoop /\ [][NextLoop]_vars

EmptyFile == [kind |-> "empty", cookies |-> <<>>, headers |-> None]

InitShared == InitStore

\* save_session: lines 261-266, up to open(filename, 'w')
shared_save_open(writable) ==
    /\ pc = "store"
    /\ IF SaveWrites(writable)
       THEN /\ file' = EmptyFile
            /\ shared' = [shared EXCEPT !.replaced = file,
                                        !.writing = SessionRecord(Jar)]
            /\ pc' = "save_opened"
            /\ UNCHANGED <<ret, store_hist>>
       ELSE /\ ret' = FALSE
            /\ store_hist' = AfterSave(store_hist, Jar, FALSE)
            /\ UNCHANGED <<pc, file, shared>>
    /\ UNCHANGED <<cookies, nonStoreVars_but_shared>>

\* save_session: lines 267-270, json.dump and the close of the file
shared_save_close ==
    /\ pc = "save_opened"
    /\ file' = SavedFile(Jar, TRUE, file)
    /\ ret' = TRUE
    /\ store_hist' = AfterSave(store_hist, Jar, TRUE)
    /\ pc' = "store"
    /\ UNCHANGED <<cookies, shared, nonStoreVars_but_shared>>

\* load_session of the other process, at any moment
shared_peer_load ==
    /\ shared' = [shared EXCEPT !.at = pc, !.read = file, !.result = LoadResult(file)]
    /\ UNCHANGED <<pc, cookies, file, ret, store_hist, nonStoreVars_but_shared>>

\* self.session.cookies.set(name, value) between two saves
shared_set_cookie(n, v) ==
    /\ pc = "store"
    /\ cookies' = [x \in {n} |-> v] @@ cookies
    /\ store_hist' = [store_hist EXCEPT !.op = "set"]
    /\ UNCHANGED <<pc, file, ret, shared, nonStoreVars_but_shared>>

NextShared ==
    \/ \E n \in CookieNames, v \in CookieValues : shared_set_cookie(n, v)
    \/ \E writable \in BOOLEAN : shared_save_open(writable)
    \/ shared_save_close
    \/ shared_peer_load

SpecShared == InitShared /\ [][NextShared]_vars

(***************************************************************************)
(* C32.  Persisted-session files are read and written whole: a             *)
(* load_session in one process that runs while a save_session of another   *)
(* process on the same location is in progress observes either the         *)
(* complete previous record or the complete new record, never an empty or  *)
(* partially written file.                                                 *)
(***************************************************************************)
C32_LoadSeesWholeRecord ==
    shared.at = "save_opened" => shared.read \in {shared.replaced, shared.writing}


(***************************************************************************)
(* C33.  After load_session returns success, the session's token set       *)
(* equals exactly the persisted token mapping: tokens that were in the     *)
(* session before the load and are absent from the file are not retained.  *)
(***************************************************************************)
C33_LoadReplacesTokens ==
    (store_hist.op = "load" /\ store_hist.load = "True") =>
        Pairs(cookies) = Pairs(ParseMembers(file.cookies))


(***************************************************************************)
(* C34.  On the reuse fast path _ensure_authenticated does not write the   *)
(* persisted session file: the file content after the call equals the      *)
(* content before it.  Neither the load nor a step that ends or follows a  *)
(* successful probe of the loaded session changes the file, and a call     *)
(* that reused the session has not run save_session.                       *)
(***************************************************************************)
C34_FastPathWritesNothing ==
    /\ [](reused => store_hist.op = "load" /\ store_hist.save = "none")
    /\ [][(pc = "load_session" \/ reused') => file' = file]_vars

C34_Witness ==
    /\ pc = "done"
    /\ reused
    /\ Len(log) >= 1
    /\ log[1].req = "probe"
    /\ file.kind = "session"
    /\ store_hist.load = "True"
    /\ store_hist.save = "none"


(***************************************************************************)
(* C35.  A failed load_session (file missing, content not well-formed      *)
(* JSON, or JSON that is not an object) leaves the session's token set     *)
(* unchanged.                                                              *)
(***************************************************************************)
C35_FailedLoadKeepsTokens ==
    (store_hist.op = "load" /\ store_hist.load # "True") =>
        /\ file.kind \in {"missing", "corrupt", "notobject"}
        /\ cookies = store_hist.before

\* a session holding a token has just failed to load a file whose content
\* is JSON but not an object
C35_Witness ==
    /\ store_hist.op = "load"
    /\ store_hist.load = "False"
    /\ ret = FALSE
    /\ file.kind = "notobject"
    /\ cookies # NoCookies
    /\ cookies = store_hist.before


(***************************************************************************)
(* C36.  Once authentication, date parsing and identity resolution have    *)
(* succeeded in apply_coa, the commit POST is issued if and only if the    *)
(* validate POST returned status 200: the validate response body never     *)
(* influences whether the commit is issued.                                *)
(***************************************************************************)
C36_CommitIffValidate200 ==
    /\ (~NotEmployeeId(employee_id) /\ pc \in {"commit", "done"}) =>
           Count("validate") = 1
    /\ Count("commit") <= Count("validate")
    /\ \A i \in Indices("validate") :
           IF Ok200(log[i])
           THEN pc = "commit" \/ (Returned /\ Count("commit") = 1)
           ELSE Returned /\ Count("commit") = 0

\* ValidateSameFiling answered 200 with the verdict false and the commit
\* POST was issued all the same
C36_Witness ==
    /\ pc = "done"
    /\ authenticated = "ok"
    /\ ~NotEmployeeId(employee_id)
    /\ \E i \in Indices("validate") :
           /\ Ok200(log[i])
           /\ ~ParseCommit(log[i].resp.body)
           /\ i + 1 \in Indices("commit")


(***************************************************************************)
(* A running apply_coa call goes on: the interpreter runs the next         *)
(* statement and every HTTP call returns or raises, so a step of the call  *)
(* that is possible is eventually taken.  The caller is free to make the   *)
(* next call or not.                                                       *)
(***************************************************************************)
CallStep ==
    \/ load_session
    \/ \E resp \in ProbeResponses : probe_loaded(resp)
    \/ \E resp \in EntryResponses : get_initial_auth_params(resp)
    \/ \E resp \in CredentialResponses : perform_login(resp)
    \/ \E resp \in PostBackResponses : post_back(resp)
    \/ \E resp \in ProbeResponses, writable \in BOOLEAN : probe_fresh(resp, writable)
    \/ \E resp \in IdentityResponses : get_employee_id(resp)
    \/ \E resp \in ValidateResponses : validate(resp)
    \/ \E resp \in CommitResponses : commit(resp)

SpecLive == Init /\ [][Next]_vars /\ WF_vars(CallStep)

(***************************************************************************)
(* C37.  Every apply_coa call terminates with a boolean result after at    *)
(* most 8 HTTP requests (at most 5 inside _ensure_authenticated: probe,    *)
(* entry GET, credential POST, post-back POST, probe; then identity GET,   *)
(* validate POST, commit POST), provided each individual HTTP call returns *)
(* or raises.                                                              *)
(***************************************************************************)
AuthenticationNames == {"probe", "entry", "credentials", "postback"}

C37_TerminatesWithinEightRequests ==
    /\ [](/\ Len(log) <= 8
          /\ Cardinality({i \in 1..Len(log) : log[i].req \in AuthenticationNames}) <= 5
          /\ Count("identity") <= 1 /\ Count("validate") <= 1 /\ Count("commit") <= 1
          /\ Returned => ret \in BOOLEAN)
    /\ (pc # "idle") ~> Returned

\* a call that made all eight requests has returned
C37_Witness ==
    /\ Returned
    /\ Len(log) = 8
    /\ [i \in 1..8 |-> log[i].req] =
           <<"probe", "entry", "credentials", "postback", "probe", "identity",
             "validate", "commit">>


(***************************************************************************)
(* The apply_coa.py command: one run of main() on a new ENGIEHRLogin       *)
(* object.  test_file is test_session.json, file the engie_session.json    *)
(* that the object's own _ensure_authenticated reads.  script.exit is the  *)
(* value main() returns, -1 while it runs.                                 *)
(***************************************************************************)
CommandFiles ==
    { NoFile, SessionRecord(NoCookies),
      SessionRecord([n \in {"ASP.NET_SessionId"} |-> "t1"]) }
CommandDates == {Date("2025-07-20"), Date("invalid")}
CommandTimesIn == {None, "09:32"}
CommandTimesOut == {None, "17:30"}

InitCommand ==
    /\ pc = "script_start"
    /\ calls = 0
    /\ username = DefaultUsername
    /\ password = DefaultPassword
    /\ cookies = NoCookies
    /\ server_cookies = NoCookies
    /\ dashboard_cookies = NoCookies
    /\ auth_params = NoCookies
    /\ login_action_url = None
    /\ file \in CommandFiles
    /\ test_file \in CommandFiles
    /\ script = NoScript
    /\ mcp_file = NoFile
    /\ mcp = NoToolCall
    /\ target_date = <<>>
    /\ time_in = None
    /\ time_out = None
    /\ reason = None
    /\ type_other = None
    /\ postback = NoPostBack
    /\ certificate_logs = <<>>
    /\ employee_id = NoId
    /\ coa_payload = NoPayload
    /\ authenticated = "pending"
    /\ reused = FALSE
    /\ ret = FALSE
    /\ log = <<>>
    /\ store_hist = NoHistory
    /\ printed = NoLine
    /\ resolved = <<>>
    /\ tasks = NoTasks
    /\ running = 0
    /\ wire = <<>>
    /\ shared = NoShared

\* what a step of main() before apply_coa leaves alone
cmdFrame ==
    <<calls, objVars, coaVars, authenticated, reused, ret, file, resolved,
      server_cookies, loginVars, mcp_file, mcp, loopVars, shared, test_file>>

\* main() returns 1 after printing a line
CommandFails(line) ==
    /\ script' = [script EXCEPT !.exit = 1, !.said = line]
    /\ pc' = "cmd_exited"

\* lines 23-38: the arguments are parsed and checked, the object is made
cmd_main(d, ti, to) ==
    /\ pc = "script_start"
    /\ IF Falsy(ti) /\ Falsy(to)
       THEN CommandFails("You must specify either --in, --out, or both") /\ UNCHANGED argVars
       ELSE IF ~StrptimeYmd(d)
       THEN CommandFails("Invalid date format") /\ UNCHANGED argVars
       ELSE /\ target_date' = d
            /\ time_in' = ti
            /\ time_out' = to
            /\ reason' = DefaultReason
            /\ type_other' = DefaultReason
            /\ pc' = "cmd_load"
            /\ script' = script
    /\ UNCHANGED <<cmdFrame, cookies, log, store_hist>>

\* lines 40-43: load_session('test_session.json')
cmd_load_session ==
    /\ pc = "cmd_load"
    /\ store_hist' = AfterLoad(store_hist, test_file, cookies)
    /\ IF LoadSucceeds(test_file)
       THEN /\ cookies' = LoadedCookies(test_file, cookies)
            /\ pc' = "cmd_probe"
            /\ script' = script
       ELSE cookies' = cookies /\ CommandFails("No valid session found")
    /\ UNCHANGED <<cmdFrame, argVars, log>>

\* lines 45-64: test_authenticated_access(), then hr_login.apply_coa(...) up
\* to its check of the times (login.py, lines 422-427)
cmd_probe(resp) ==
    /\ pc = "cmd_probe"
    /\ log' = Append(log, Request("probe", resp, None))
    /\ IF ProbeSucceeds(resp)
       THEN /\ script' = [script EXCEPT !.said = "Applying COA"]
            /\ IF NoTimeGiven(time_in, time_out)
               THEN pc' = "done" ELSE pc' = "load_session"
       ELSE CommandFails("Session expired")
    /\ UNCHANGED <<cmdFrame, argVars, cookies, store_hist>>

\* lines 66-71: the exit status for the result of apply_coa
cmd_exit ==
    /\ pc = "done"
    /\ script' = IF ret
                 THEN [script EXCEPT !.exit = 0,
                                     !.said = "COA application submitted successfully"]
                 ELSE [script EXCEPT !.exit = 1, !.said = "COA application failed"]
    /\ pc' = "cmd_exited"
    /\ UNCHANGED <<cmdFrame, argVars, cookies, log, store_hist>>

NextCommand ==
    \/ \E d \in CommandDates, ti \in CommandTimesIn, to \in CommandTimesOut :
          cmd_main(d, ti, to)
    \/ cmd_load_session
    \/ \E resp \in ProbeResponses : cmd_probe(resp)
    \/ load_session
    \/ \E resp \in ProbeResponses : probe_loaded(resp)
    \/ \E resp \in EntryResponses : get_initial_auth_params(resp)
    \/ \E resp \in CredentialResponses : perform_login(resp)
    \/ \E resp \in PostBackResponses : post_back(resp)
    \/ \E resp \in ProbeResponses, writable \in BOOLEAN : probe_fresh(resp, writable)
    \/ \E resp \in IdentityResponses : get_employee_id(resp)
    \/ \E resp \in ValidateResponses : validate(resp)
    \/ \E resp \in CommitResponses : commit(resp)
    \/ cmd_exit

SpecCommand == InitCommand /\ [][NextCommand]_vars

(***************************************************************************)
(* C38.  The apply_coa.py command never submits credentials: it exits with *)
(* 1 when test_session.json is missing or its probe fails, and when the    *)
(* probe succeeds the validate and commit POSTs run on that loaded session *)
(* with no Authentication Flow run during the command.                     *)
(***************************************************************************)
C38_CommandNeverLogsIn ==
    /\ Count("entry") = 0
    /\ Count("credentials") = 0
    /\ Count("postback") = 0
    /\ (/\ pc = "cmd_exited"
        /\ \/ ~LoadSucceeds(test_file)
           \/ Len(log) >= 1 /\ ~ProbePassed(log[1])) =>
           script.exit = 1


(***************************************************************************)
(* The login script: one run of main() of login.py, lines 633-694.  The    *)
(* credentials are typed in; the session file is the default               *)
(* engie_session.json.  script.exit is the exit status, -1 while it runs.  *)
(***************************************************************************)
InputLines == {"", " ", "alice"}

\* str.strip() of a typed line
Strip(s) == IF s = " " THEN "" ELSE s

\* a script starts on a new object; test_session.json plays no part
InitMain ==
    /\ InitCommand
    /\ test_file = NoFile

mainFrame ==
    <<calls, objVars, argVars, coaVars, authenticated, reused, ret, resolved,
      mcp_file, mcp, loopVars, shared, test_file>>

\* sys.exit(1) after printing a line
MainFails(line) ==
    /\ script' = [script EXCEPT !.exit = 1, !.said = line]
    /\ pc' = "main_exited"

\* lines 639-651: the credentials are read and checked, the object is made
main_input(u, p) ==
    /\ pc = "script_start"
    /\ IF Falsy(Strip(u)) THEN MainFails("Username is required")
       ELSE IF Falsy(Strip(p)) THEN MainFails("Password is required")
       ELSE /\ script' = [script EXCEPT !.username = Strip(u), !.password = Strip(p)]
            /\ pc' = "main_load"
    /\ UNCHANGED <<mainFrame, cookies, server_cookies, loginVars, file, log, store_hist>>

\* line 654: load_session()
main_load_session ==
    /\ pc = "main_load"
    /\ store_hist' = AfterLoad(store_hist, file, cookies)
    /\ IF LoadSucceeds(file)
       THEN cookies' = LoadedCookies(file, cookies) /\ pc' = "main_probe"
       ELSE cookies' = cookies /\ pc' = "main_entry"
    /\ UNCHANGED <<mainFrame, server_cookies, loginVars, file, log, script>>

\* lines 655-658: the probe of the loaded session; both branches only print
main_probe_loaded(resp) ==
    /\ pc = "main_probe"
    /\ log' = Append(log, Request("probe", resp, None))
    /\ script' = [script EXCEPT !.said =
                     IF ProbeSucceeds(resp) THEN "Using existing valid session"
                     ELSE "Existing session invalid, performing fresh login"]
    /\ pc' = "main_entry"
    /\ UNCHANGED <<mainFrame, cookies, server_cookies, loginVars, file, store_hist>>

\* lines 660-663: get_initial_auth_params()
main_get_initial_auth_params(resp) ==
    /\ pc = "main_entry"
    /\ log' = Append(log, Request("entry", resp, None))
    /\ printed' = EntryMessage(resp)
    /\ auth_params' =
          IF ~resp.raised /\ resp.status = 200 /\ EntryHostOk(resp)
          THEN CollapseSingles(ParseQs(resp.url.query))
          ELSE auth_params
    /\ IF EntrySucceeds(resp)
       THEN /\ login_action_url' = resp.form.action
            /\ pc' = "main_credentials"
            /\ script' = script
       ELSE /\ login_action_url' = login_action_url
            /\ MainFails("Failed to get authentication parameters")
    /\ UNCHANGED <<mainFrame, cookies, server_cookies, postback, dashboard_cookies,
                   file, store_hist>>

\* lines 665-667: perform_login(username, password), the credential POST
main_perform_login(resp) ==
    /\ pc = "main_credentials"
    /\ log' = Append(log, Request("credentials", resp,
                                  LoginData(script.username, script.password)))
    /\ printed' = LoginMessage(resp)
    /\ IF CredentialsAccepted(resp)
       THEN /\ postback' = [action |-> resp.body.form.action,
                            form_data |-> FormData(resp.body.form.inputs)]
            /\ pc' = "main_postback"
            /\ script' = script
       ELSE postback' = postback /\ MainFails("Login failed")
    /\ UNCHANGED <<mainFrame, cookies, server_cookies, auth_params, login_action_url,
                   dashboard_cookies, file, store_hist>>

\* perform_login: the post-back POST and the landing check
main_post_back(resp) ==
    /\ pc = "main_postback"
    /\ log' = Append(log, Request("postback", resp, postback.form_data))
    /\ server_cookies' =
          IF resp.raised THEN server_cookies
          ELSE [n \in {"ASP.NET_SessionId"} |-> resp.setcookie] @@ server_cookies
    /\ printed' = LandingMessage(resp, JarConflict(cookies, server_cookies'))
    /\ IF PostBackSucceeds(resp, JarConflict(cookies, server_cookies'))
       THEN /\ dashboard_cookies' = JarDict(cookies, server_cookies')
            /\ pc' = "main_probe_fresh"
            /\ script' = script
       ELSE dashboard_cookies' = dashboard_cookies /\ MainFails("Login failed")
    /\ UNCHANGED <<mainFrame, cookies, auth_params, login_action_url, postback,
                   file, store_hist>>

\* lines 669-671 and 692-694: the probe after the login, and save_session()
main_probe_fresh(resp, writable) ==
    /\ pc = "main_probe_fresh"
    /\ log' = Append(log, Request("probe", resp, None))
    /\ IF ProbeSucceeds(resp)
       THEN /\ file' = SavedFile(Jar, SaveWrites(writable), file)
            /\ store_hist' = AfterSave(store_hist, Jar, SaveWrites(writable))
            /\ pc' = "main_user_info"
            /\ script' = script
       ELSE /\ file' = file
            /\ store_hist' = store_hist
            /\ MainFails("Authentication verification failed")
    /\ UNCHANGED <<mainFrame, cookies, server_cookies, loginVars>>

\* lines 673-690: get_user_info() reads the dashboard once more; whatever it
\* gets, main() ends normally
main_get_user_info(resp) ==
    /\ pc = "main_user_info"
    /\ log' = Append(log, Request("user_info", resp, None))
    /\ script' = [script EXCEPT !.exit = 0, !.said = "Login completed successfully"]
    /\ pc' = "main_exited"
    /\ UNCHANGED <<mainFrame, cookies, server_cookies, loginVars, file, store_hist>>

NextMain ==
    \/ \E u \in InputLines, p \in InputLines : main_input(u, p)
    \/ main_load_session
    \/ \E resp \in ProbeResponses : main_probe_loaded(resp)
    \/ \E resp \in EntryResponses : main_get_initial_auth_params(resp)
    \/ \E resp \in CredentialResponses : main_perform_login(resp)
    \/ \E resp \in PostBackResponses : main_post_back(resp)
    \/ \E resp \in ProbeResponses, writable \in BOOLEAN : main_probe_fresh(resp, writable)
    \/ \E resp \in ProbeResponses : main_get_user_info(resp)

SpecMain == InitMain /\ [][NextMain]_vars

(***************************************************************************)
(* C39.  In the login script's main(), when the saved session loads and    *)
(* passes the authenticated-access probe ('Using existing valid session'), *)
(* no entry GET and no credential POST is issued afterwards in that run.   *)
(***************************************************************************)
C39_ValidSessionSkipsLogin ==
    (Len(log) >= 1 /\ ProbePassed(log[1])) =>
        /\ Count("entry") = 0
        /\ Count("credentials") = 0


(***************************************************************************)
(* C40.  Whenever _ensure_authenticated writes the persisted session file, *)
(* the tokens it writes are those of a session on which the                *)
(* authenticated-access probe succeeded earlier in the same call, after a  *)
(* successful perform_login; no file is written on any failing path.       *)
(***************************************************************************)
C40_OnlyProbedSessionSaved ==
    /\ store_hist.written =>
           /\ authenticated = "ok"
           /\ ~reused
           /\ \E i \in Indices("probe") :
                  /\ ProbePassed(log[i])
                  /\ i > 1
                  /\ log[i - 1].req = "postback"
                  /\ ReachedDashboardUrl(log[i - 1])
           /\ store_hist.saved = Jar
           /\ dashboard_cookies = Jar
           /\ file = SessionRecord(Jar)
    /\ authenticated = "failed" =>
           /\ store_hist.save = "none"
           /\ ~store_hist.written

\* the stored session failed its probe, the fresh login passed its own, and
\* the file now holds the tokens of the session that was probed
C40_Witness ==
    /\ pc = "done"
    /\ store_hist.written
    /\ store_hist.load = "True"
    /\ Len(log) >= 5
    /\ log[1].req = "probe" /\ ~ProbePassed(log[1])
    /\ log[4].req = "postback"
    /\ ProbePassed(log[5])
    /\ Jar # NoCookies
    /\ file = SessionRecord(Jar)

====
